---- MODULE Spec2Model ----
(***************************************************************************)
(* oci2git: an OCI image tarball is replayed, layer by layer, into a git   *)
(* repository.  Strings are sequences of tokens (a token is one character  *)
(* or one indivisible word), so that escaping, trimming and prefix tests   *)
(* are computed the way the Rust code computes them.                       *)
(***************************************************************************)
EXTENDS Integers, Sequences, FiniteSets, TLC

VARIABLES commits, branches, head, index, rootfs, imageMd, pc, run, result,
          converted, used, scratchFs, directFs, replayed, produced, arg, ret

vars == <<commits, branches, head, index, rootfs, imageMd, pc, run, result,
          converted, used, scratchFs, directFs, replayed, produced, arg, ret>>

(* ------------------------------ bounds --------------------------------- *)
\* longest history (number of layers) of an image of the history universe
MaxHist == 3
\* commits a repository of the history universe may hold
MaxCommits == 6
\* commits a repository may hold where the navigator is asked about it
MaxNavCommits == 5
\* tar entries fed to the tool over a whole behaviour of the overlay universes
MaxEntries == 3
\* characters in a command of the table's universe
MaxText == 2
\* entries in a tracker of the matching universe, and the positions asked for
MaxChain == 2
\* entries in the manifests array of an index.json of the id universe
MaxManifests == 2

(* ------------------------- strings as token sequences ------------------- *)
\* the character U+0060
Backtick == "<backtick>"
Contains(s, t) == \E i \in 1..Len(s) : s[i] = t
RemoveAll(s, t) == SelectSeq(s, LAMBDA c : c # t)
ReplaceToken(s, from, to) == [i \in 1..Len(s) |-> IF s[i] = from THEN to ELSE s[i]]

RECURSIVE TrimStart(_)
TrimStart(s) ==
    IF s # <<>> /\ Head(s) \in {" ", "\n"} THEN TrimStart(Tail(s)) ELSE s

RECURSIVE TrimEnd(_)
TrimEnd(s) ==
    IF s # <<>> /\ s[Len(s)] \in {" ", "\n"}
    THEN TrimEnd(SubSeq(s, 1, Len(s) - 1))
    ELSE s

Trim(s) == TrimEnd(TrimStart(s))

StartsWith(s, t) == s # <<>> /\ Head(s) = t

\* str::replace("|", "\\|")
RECURSIVE EscapePipes(_)
EscapePipes(s) ==
    IF s = <<>> THEN <<>>
    ELSE IF Head(s) = "|" THEN <<"\\", "|">> \o EscapePipes(Tail(s))
    ELSE <<Head(s)>> \o EscapePipes(Tail(s))

\* str::replace("\\|", "|"): leftmost, non-overlapping matches
RECURSIVE UnescapePipes(_)
UnescapePipes(s) ==
    IF s = <<>> THEN <<>>
    ELSE IF Len(s) >= 2 /\ s[1] = "\\" /\ s[2] = "|"
         THEN <<"|">> \o UnescapePipes(SubSeq(s, 3, Len(s)))
    ELSE <<Head(s)>> \o UnescapePipes(Tail(s))

\* str::lines(): split at "\n"; a trailing newline opens no further line
Lines(s) ==
    LET ends == {i \in 1..Len(s) : s[i] = "\n"}
                \cup (IF s # <<>> /\ s[Len(s)] # "\n" THEN {Len(s) + 1} ELSE {})
        End(k) == CHOOSE p \in ends : Cardinality({q \in ends : q < p}) = k - 1
    IN [k \in 1..Cardinality(ends) |->
           SubSeq(s, IF k = 1 THEN 1 ELSE End(k - 1) + 1, End(k) - 1)]

(* ------------------------------ layers ---------------------------------- *)
NoTarball == [parent |-> "", name |-> <<>>, tar |-> <<>>]
NoComment == [some |-> FALSE, text |-> <<>>]

ShellNop == "/bin/sh -c #(nop) "
ShellRun == "/bin/sh -c "

\* the decimal rendering of a history index
IndexToken(i) == <<"0", "1", "2", "3", "4", "5", "6", "7">>[i + 1]

\* DateTime<Utc>::to_rfc3339 of an instant
ToRfc3339(t) == <<t, "+00:00">>

StripShellPrefix(created_by) ==
    IF Contains(created_by, ShellNop)
    THEN TrimStart(RemoveAll(created_by, ShellNop))
    ELSE IF Contains(created_by, ShellRun)
         THEN TrimStart(RemoveAll(created_by, ShellRun))
    ELSE created_by

\* a variant that takes the file name as it is
file_name_as_digest(p) == p.name
extract_digest_from_tarball_path(p) ==
    IF p.parent = "sha256" THEN <<"sha256:">> \o p.name
    ELSE IF StartsWith(p.name, "sha256:") THEN p.name
    ELSE <<"sha256:">> \o p.name

extract_digest_from_layer_id(id) ==
    IF StartsWith(id, "sha256:") THEN id
    ELSE IF StartsWith(id, "<") /\ id[Len(id)] = ">" THEN id
    ELSE <<"sha256:">> \o id

\* history is walked newest to oldest; each non-empty entry takes the last
\* layer blob not yet taken; the list is returned oldest first
RECURSIVE LoadLayersFrom(_, _, _)
LoadLayersFrom(image, i, tarballIdx) ==
    IF i = 0 THEN <<>>
    ELSE LET h == image.history[i]
             takes == ~h.empty_layer /\ tarballIdx > 0
             idx == IF takes THEN tarballIdx - 1 ELSE tarballIdx
             blob == image.layers[idx + 1]
             layer ==
                 IF takes
                 THEN [id |-> blob.name,
                       command |-> StripShellPrefix(h.created_by),
                       created_at |-> h.created,
                       is_empty |-> h.empty_layer,
                       tarball_path |-> blob,
                       digest |-> extract_digest_from_tarball_path(blob),
                       comment |-> h.comment]
                 ELSE [id |-> <<"<", "empty-layer-", IndexToken(i - 1), ">">>,
                       command |-> StripShellPrefix(h.created_by),
                       created_at |-> h.created,
                       is_empty |-> h.empty_layer,
                       tarball_path |-> NoTarball,
                       digest |-> IF h.empty_layer THEN <<"empty">>
                                  ELSE <<"no-tarball">>,
                       comment |-> h.comment]
         IN Append(LoadLayersFrom(image, i - 1, idx), layer)

load_layers_from_dir(image) ==
    LoadLayersFrom(image, Len(image.history), Len(image.layers))

HasTarball(layer) == layer.tarball_path # NoTarball

\* ImageProcessor::get_layers: history is walked newest to oldest and each
\* non-empty entry takes the first layer blob not yet taken; the list is
\* returned oldest first. Its records have no tarball path: the field holds
\* the blob whose file name became the id
RECURSIVE GetLayersFrom(_, _, _)
GetLayersFrom(image, i, tarballIdx) ==
    IF i = 0 THEN <<>>
    ELSE LET h == image.history[i]
             takes == ~h.empty_layer /\ tarballIdx < Len(image.layers)
             blob == image.layers[tarballIdx + 1]
             layer ==
                 [id |-> IF takes THEN blob.name
                         ELSE <<"<", "empty-layer-", IndexToken(i - 1), ">">>,
                  command |-> StripShellPrefix(h.created_by),
                  created_at |-> h.created,
                  is_empty |-> h.empty_layer,
                  tarball_path |-> IF takes THEN blob ELSE NoTarball]
         IN Append(GetLayersFrom(image, i - 1,
                                 IF takes THEN tarballIdx + 1 ELSE tarballIdx),
                   layer)

get_layers(image) == GetLayersFrom(image, Len(image.history), 0)

(* --------------------------- digest tracker ----------------------------- *)
NormalizeZ(created) == ReplaceToken(created, "Z", "+00:00")

\* a variant that compares the command whatever the layer
layers_match_by_command(existing, new) ==
    IF existing.is_empty # new.is_empty THEN FALSE
    ELSE IF NormalizeZ(existing.created) # NormalizeZ(ToRfc3339(new.created_at))
         THEN FALSE
    ELSE existing.command = new.command

layers_match(existing, new) ==
    IF existing.is_empty # new.is_empty THEN FALSE
    ELSE IF NormalizeZ(existing.created) # NormalizeZ(ToRfc3339(new.created_at))
         THEN FALSE
    ELSE IF existing.is_empty /\ new.is_empty
         THEN existing.command = new.command
    ELSE existing.digest = extract_digest_from_layer_id(new.id)

layer_matches(tracker, position, layer) ==
    IF position + 1 \in 1..Len(tracker)
    THEN layers_match(tracker[position + 1], layer)
    ELSE FALSE

\* a variant that puts the new entry in front of the chain
add_layer_in_front(tracker, layer) ==
    <<[digest |-> layer.digest,
       command |-> layer.command,
       created |-> ToRfc3339(layer.created_at),
       is_empty |-> layer.is_empty,
       comment |-> layer.comment]>> \o tracker
add_layer(tracker, layer) ==
    Append(tracker, [digest |-> layer.digest,
                     command |-> layer.command,
                     created |-> ToRfc3339(layer.created_at),
                     is_empty |-> layer.is_empty,
                     comment |-> layer.comment])

(* --------------------------- Image.md codec ----------------------------- *)

RenderRow(d) ==
    <<"|", " ">> \o d.created \o <<" ", "|", " ", Backtick>> \o EscapePipes(d.command)
    \o <<Backtick, " ", "|", " ">> \o EscapePipes(d.comment.text)
    \o <<" ", "|", " ", Backtick>> \o d.digest \o <<Backtick, " ", "|", " ">>
    \o <<IF d.is_empty THEN "true" ELSE "false">> \o <<" ", "|", "\n">>

RECURSIVE RenderRows(_)
RenderRows(chain) ==
    IF chain = <<>> THEN <<>> ELSE RenderRow(Head(chain)) \o RenderRows(Tail(chain))

\* the file: who the header names, and the text of the layer table's rows
render_markdown(info, chain) ==
    [exists |-> TRUE, info |-> info, table |-> RenderRows(chain)]

\* positions of the pipes not preceded by a backslash
UnescapedPipes(line) ==
    {i \in 1..Len(line) : line[i] = "|" /\ (i = 1 \/ line[i - 1] # "\\")}

RECURSIVE SplitAtPipes(_, _, _)
SplitAtPipes(line, start, pipes) ==
    IF pipes = {}
    THEN (IF start <= Len(line) THEN <<SubSeq(line, start, Len(line))>> ELSE <<>>)
    ELSE LET pos == CHOOSE p \in pipes : \A q \in pipes : p <= q
         IN <<SubSeq(line, start, pos - 1)>>
            \o SplitAtPipes(line, pos + 1, pipes \ {pos})

ParseRow(line) ==
    LET parts == SplitAtPipes(line, 1, UnescapedPipes(line))
    IN IF Len(parts) < 6 THEN <<>>
       ELSE LET created == Trim(parts[2])
                command == UnescapePipes(RemoveAll(Trim(parts[3]), Backtick))
                comment == UnescapePipes(Trim(parts[4]))
                digest == RemoveAll(Trim(parts[5]), Backtick)
            IN IF created = <<>> \/ digest = <<>> THEN <<>>
               ELSE <<[digest |-> digest,
                       command |-> command,
                       created |-> created,
                       is_empty |-> Trim(parts[6]) = <<"true">>,
                       comment |-> IF comment = <<>> THEN NoComment
                                   ELSE [some |-> TRUE, text |-> comment]]>>

\* rows are read while the line starts with a pipe
RECURSIVE ParseRows(_)
ParseRows(lines) ==
    IF lines = <<>> THEN <<>>
    ELSE IF ~StartsWith(Trim(Head(lines)), "|") THEN <<>>
    ELSE ParseRow(Head(lines)) \o ParseRows(Tail(lines))

parse_markdown(md) == ParseRows(Lines(md.table))

(* ------------------------ Image.md, the whole file ---------------------- *)
None == [some |-> FALSE]
Some(v) == [some |-> TRUE, value |-> v]

HasPrefix(s, p) == Len(s) >= Len(p) /\ SubSeq(s, 1, Len(p)) = p

\* str::replace(pat, to): leftmost, non-overlapping matches
RECURSIVE ReplaceSeq(_, _, _)
ReplaceSeq(s, pat, to) ==
    IF s = <<>> THEN <<>>
    ELSE IF HasPrefix(s, pat)
         THEN to \o ReplaceSeq(SubSeq(s, Len(pat) + 1, Len(s)), pat, to)
    ELSE <<Head(s)>> \o ReplaceSeq(Tail(s), pat, to)

\* str::split(sep): the pieces between the matches, empty pieces included
RECURSIVE SplitSeq(_, _)
SplitSeq(s, sep) ==
    LET hits == {i \in 1..Len(s) : HasPrefix(SubSeq(s, i, Len(s)), sep)}
    IN IF hits = {} THEN <<s>>
       ELSE LET i == CHOOSE h \in hits : \A g \in hits : h <= g
            IN <<SubSeq(s, 1, i - 1)>>
               \o SplitSeq(SubSeq(s, i + Len(sep), Len(s)), sep)

\* [String]::join(sep)
RECURSIVE JoinSeq(_, _)
JoinSeq(ss, sep) ==
    IF ss = <<>> THEN <<>>
    ELSE IF Len(ss) = 1 THEN ss[1]
    ELSE ss[1] \o sep \o JoinSeq(Tail(ss), sep)

RECURSIVE Concat(_)
Concat(ss) == IF ss = <<>> THEN <<>> ELSE Head(ss) \o Concat(Tail(ss))

\* the fixed texts of the file
Markup ==
    [fence |-> <<Backtick, Backtick, Backtick>>,
     image |-> <<"# Image:", " ">>,
     name |-> <<"- **Name**:", " ">>,
     id |-> <<"- **ID**:", " ", Backtick>>,
     tags |-> <<"- **Tags**:", " ">>,
     created |-> <<"- **Created**:", " ">>,
     architecture |-> <<"- **Architecture**:", " ">>,
     os |-> <<"- **OS**:", " ">>,
     port |-> <<"-", " ", Backtick>>,
     labels |-> <<"|", " ", "Key", " ", "|", " ", "Value", " ", "|">>,
     labels_rule |-> <<"|", "-----", "|", "-------", "|">>,
     history |->
         <<"|", " ", "Created", " ", "|", " ", "Command", " ", "|", " ",
           "Comment", " ", "|", " ", "Digest", " ", "|", " ", "Empty", " ", "|">>,
     history_rule |->
         <<"|", "------", "---", "|", "---------", "|", "---------", "|",
           "--------", "|", "-------", "|">>]

\* the labels of a map in one of the orders its iteration can take
RECURSIVE LabelRows(_)
LabelRows(labels) ==
    IF labels = {} THEN <<>>
    ELSE LET l == CHOOSE x \in labels : TRUE
         IN <<"|", " ", Backtick>> \o l[1] \o <<Backtick, " ", "|", " ", Backtick>>
            \o l[2] \o <<Backtick, " ", "|", "\n">> \o LabelRows(labels \ {l})

RenderBasicInfo(b) ==
    <<"## Basic Information", "\n", "\n">>
    \o Markup.name \o b.name \o <<"\n">>
    \o Markup.id \o b.id \o <<Backtick, "\n">>
    \o (IF b.tags # <<>> THEN Markup.tags \o JoinSeq(b.tags, <<",", " ">>) \o <<"\n">>
        ELSE <<>>)
    \o Markup.created \o b.created \o <<"\n">>
    \o Markup.architecture \o b.architecture \o <<"\n">>
    \o Markup.os \o b.os \o <<"\n">>
    \o <<"\n">>

Fenced(title, body) ==
    <<title, "\n", "\n">> \o Markup.fence \o <<"\n">> \o body \o Markup.fence
    \o <<"\n", "\n">>

RenderContainerConfig(c) ==
    <<"## Container Configuration", "\n", "\n">>
    \o (IF c.environment_variables # <<>>
        THEN Fenced("### Environment Variables",
                    Concat([i \in 1..Len(c.environment_variables) |->
                               c.environment_variables[i] \o <<"\n">>]))
        ELSE <<>>)
    \o (IF c.command.some
        THEN Fenced("### Command", c.command.value \o <<"\n">>) ELSE <<>>)
    \o (IF c.entrypoint.some
        THEN Fenced("### Entrypoint", c.entrypoint.value \o <<"\n">>) ELSE <<>>)
    \o (IF c.working_directory # <<>>
        THEN <<"### Working Directory", "\n", "\n", Backtick>>
             \o c.working_directory \o <<Backtick, "\n", "\n">>
        ELSE <<>>)
    \o (IF c.exposed_ports # <<>>
        THEN <<"### Exposed Ports", "\n", "\n">>
             \o Concat([i \in 1..Len(c.exposed_ports) |->
                           Markup.port \o c.exposed_ports[i] \o <<Backtick, "\n">>])
             \o <<"\n">>
        ELSE <<>>)
    \o (IF c.labels # {}
        THEN <<"### Labels", "\n", "\n">> \o Markup.labels \o <<"\n">>
             \o Markup.labels_rule \o <<"\n">> \o LabelRows(c.labels) \o <<"\n">>
        ELSE <<>>)

\* the text of the file
render_markdown_text(m) ==
    Markup.image
    \o (IF m.basic_info.some THEN m.basic_info.value.name ELSE <<"Unknown">>)
    \o <<"\n", "\n">>
    \o (IF m.basic_info.some THEN RenderBasicInfo(m.basic_info.value) ELSE <<>>)
    \o (IF m.container_config.some
        THEN RenderContainerConfig(m.container_config.value) ELSE <<>>)
    \o (IF m.layer_digests # <<>>
        THEN <<"## Layer History", "\n", "\n">> \o Markup.history \o <<"\n">>
             \o Markup.history_rule \o <<"\n">> \o RenderRows(m.layer_digests)
             \o <<"\n">>
        ELSE <<>>)

\* what parse_markdown starts from
DefaultContainerConfig ==
    [environment_variables |-> <<>>, command |-> None, entrypoint |-> None,
     working_directory |-> <<"/">>, exposed_ports |-> <<>>, labels |-> {}]

\* the loops of parse_markdown: each gives the index it stops at and what it
\* has collected; i counts the lines from 0 as the code does, lines[i + 1] is
\* its lines[i]
RECURSIVE EnvLoop(_, _, _)
EnvLoop(lines, i, env) ==
    IF i < Len(lines) /\ Trim(lines[i + 1]) # Markup.fence
    THEN EnvLoop(lines, i + 1,
                 IF Trim(lines[i + 1]) # <<>>
                 THEN Append(env, lines[i + 1]) ELSE env)
    ELSE [i |-> i, env |-> env]

RECURSIVE PortsLoop(_, _, _)
PortsLoop(lines, i, ports) ==
    IF i < Len(lines) /\ HasPrefix(Trim(lines[i + 1]), Markup.port)
    THEN PortsLoop(lines, i + 1,
                   Append(ports,
                          RemoveAll(ReplaceSeq(Trim(lines[i + 1]), Markup.port, <<>>),
                                    Backtick)))
    ELSE [i |-> i, ports |-> ports]

RECURSIVE LabelsLoop(_, _, _)
LabelsLoop(lines, i, labels) ==
    IF /\ i < Len(lines)
       /\ HasPrefix(Trim(lines[i + 1]), <<"|">>)
       /\ ~HasPrefix(Trim(lines[i + 1]), SubSeq(Markup.labels, 1, 5))
    THEN LET parts == SplitSeq(lines[i + 1], <<"|">>)
             key == IF Len(parts) >= 4 THEN RemoveAll(Trim(parts[2]), Backtick)
                    ELSE <<>>
             value == IF Len(parts) >= 4 THEN RemoveAll(Trim(parts[3]), Backtick)
                      ELSE <<>>
         IN LabelsLoop(lines, i + 1,
                       IF Len(parts) >= 4 /\ key # <<>> /\ value # <<>>
                       THEN {l \in labels : l[1] # key} \cup {<<key, value>>}
                       ELSE labels)
    ELSE [i |-> i, labels |-> labels]

RECURSIVE RowsLoop(_, _, _)
RowsLoop(lines, i, rows) ==
    IF /\ i < Len(lines)
       /\ HasPrefix(Trim(lines[i + 1]), <<"|">>)
       /\ Trim(lines[i + 1]) # <<>>
    THEN RowsLoop(lines, i + 1, rows \o ParseRow(lines[i + 1]))
    ELSE [i |-> i, rows |-> rows]

\* one turn of the outer loop on line i: the index the turn ends on (before the
\* closing i += 1) and the three values it has updated
ParseTurn(lines, i, b, c, d) ==
    LET line == Trim(lines[i + 1])
        Same == [i |-> i, b |-> b, c |-> c, d |-> d]
        Item(prefix) == ReplaceSeq(line, prefix, <<>>)
    IN IF HasPrefix(line, Markup.image)
       THEN [Same EXCEPT !.b.name = Item(Markup.image)]
       ELSE IF HasPrefix(line, Markup.name)
       THEN [Same EXCEPT !.b.name = Item(Markup.name)]
       ELSE IF HasPrefix(line, Markup.id)
       THEN [Same EXCEPT !.b.id = RemoveAll(Item(Markup.id), Backtick)]
       ELSE IF HasPrefix(line, Markup.tags)
       THEN [Same EXCEPT !.b.tags = SplitSeq(Item(Markup.tags), <<",", " ">>)]
       ELSE IF HasPrefix(line, Markup.created)
       THEN [Same EXCEPT !.b.created = Item(Markup.created)]
       ELSE IF HasPrefix(line, Markup.architecture)
       THEN [Same EXCEPT !.b.architecture = Item(Markup.architecture)]
       ELSE IF HasPrefix(line, Markup.os)
       THEN [Same EXCEPT !.b.os = Item(Markup.os)]
       ELSE IF line = <<"### Environment Variables">>
       THEN LET l == EnvLoop(lines, i + 2, c.environment_variables)
            IN [Same EXCEPT !.i = l.i, !.c.environment_variables = l.env]
       ELSE IF line = <<"### Command">>
       THEN [Same EXCEPT
               !.i = i + 2,
               !.c.command = IF i + 2 < Len(lines)
                                /\ Trim(lines[i + 3]) # Markup.fence
                             THEN Some(Trim(lines[i + 3])) ELSE @]
       ELSE IF line = <<"### Entrypoint">>
       THEN [Same EXCEPT
               !.i = i + 2,
               !.c.entrypoint = IF i + 2 < Len(lines)
                                   /\ Trim(lines[i + 3]) # Markup.fence
                                THEN Some(Trim(lines[i + 3])) ELSE @]
       ELSE IF HasPrefix(line, <<"### Working Directory">>)
       THEN LET wd == IF i + 2 < Len(lines)
                      THEN RemoveAll(Trim(lines[i + 3]), Backtick)
                      ELSE <<>>
            IN [Same EXCEPT !.i = i + 2,
                            !.c.working_directory = IF wd # <<>> THEN wd ELSE @]
       ELSE IF line = <<"### Exposed Ports">>
       THEN LET l == PortsLoop(lines, i + 2, c.exposed_ports)
            IN [Same EXCEPT !.i = l.i - 1, !.c.exposed_ports = l.ports]
       ELSE IF line = <<"### Labels">>
       THEN LET l == LabelsLoop(lines, i + 3, c.labels)
            IN [Same EXCEPT !.i = l.i - 1, !.c.labels = l.labels]
       ELSE IF line = <<"## Layer History">>
       THEN LET i1 == IF i + 2 < Len(lines)
                         /\ HasPrefix(Trim(lines[i + 3]),
                                      SubSeq(Markup.history, 1, 5))
                      THEN i + 3 ELSE i + 2
                i2 == IF i1 < Len(lines)
                         /\ HasPrefix(Trim(lines[i1 + 1]),
                                      SubSeq(Markup.history_rule, 1, 2))
                      THEN i1 + 1 ELSE i1
                l == RowsLoop(lines, i2, d)
            IN [Same EXCEPT !.i = l.i - 1, !.d = l.rows]
       ELSE Same

RECURSIVE ParseLines(_, _, _, _, _)
ParseLines(lines, i, b, c, d) ==
    IF i < Len(lines)
    THEN LET t == ParseTurn(lines, i, b, c, d)
         IN ParseLines(lines, t.i + 1, t.b, t.c, t.d)
    ELSE [basic_info |-> IF b.name = <<>> /\ b.id = <<>> THEN None ELSE Some(b),
          container_config |-> IF c = DefaultContainerConfig THEN None ELSE Some(c),
          layer_digests |-> d]

\* the file's text read back
parse_markdown_text(content) ==
    ParseLines(Lines(content), 0,
               [name |-> <<>>, id |-> <<>>, tags |-> <<>>, created |-> <<>>,
                architecture |-> <<>>, os |-> <<>>],
               DefaultContainerConfig, <<>>)

(* ------------------------------ image id -------------------------------- *)
\* index["manifests"][0]["digest"] when all three are there and the digest is
\* a string
FirstManifestDigest(index_json) ==
    IF ~index_json.some THEN None
    ELSE IF ~index_json.value.manifests.some THEN None
    ELSE IF index_json.value.manifests.value = <<>> THEN None
    ELSE index_json.value.manifests.value[1].digest

\* load_metadata_from_dir, the id: the placeholder that from_oci_config leaves,
\* replaced by the digest of index.json, and by the digest in the config path
\* (strip_prefix, else strip_suffix) if it is empty after that
load_metadata_id(index_json, config_file) ==
    LET digest == FirstManifestDigest(index_json)
        id == IF digest.some THEN digest.value ELSE <<"sha256:">>
    IN IF id # <<>> THEN id
       ELSE IF config_file # <<>> /\ Head(config_file) = "blobs/sha256/"
       THEN <<"sha256:">> \o Tail(config_file)
       ELSE IF config_file # <<>> /\ config_file[Len(config_file)] = ".json"
       THEN <<"sha256:">> \o SubSeq(config_file, 1, Len(config_file) - 1)
       ELSE id

(* ----------------------------- file system ------------------------------ *)
\* A tree is a function from the paths present under its root to nodes; a path
\* is a sequence of names and a name a token sequence (".wh.x" = <<".wh.","x">>).
EmptyFs == [p \in {} |-> [k |-> "dir"]]
FileNode(c) == [k |-> "file", c |-> c]

IsPrefix(p, q) == Len(p) <= Len(q) /\ SubSeq(q, 1, Len(p)) = p
Parent(p) == SubSeq(p, 1, Len(p) - 1)
FileName(p) == p[Len(p)]
Prefixes(p) == {SubSeq(p, 1, n) : n \in 1..Len(p)}

Exists(fs, p) == p = <<>> \/ p \in DOMAIN fs
IsDir(fs, p) == p = <<>> \/ (p \in DOMAIN fs /\ fs[p].k = "dir")

Restrict(fs, keep) == [p \in keep |-> fs[p]]
\* fs::remove_dir_all / fs::remove_file of p
RemovePath(fs, p) == Restrict(fs, {q \in DOMAIN fs : ~IsPrefix(p, q)})
\* every child of directory d is removed, d stays
ClearDir(fs, d) == Restrict(fs, {q \in DOMAIN fs : ~(IsPrefix(d, q) /\ q # d)})

\* fs::create_dir_all: fails when a component is present and no directory
create_dir_all(fs, p) ==
    IF \A q \in Prefixes(p) : q \in DOMAIN fs => fs[q].k = "dir"
    THEN [ok |-> TRUE,
          fs |-> [q \in DOMAIN fs \cup Prefixes(p) |->
                     IF q \in DOMAIN fs THEN fs[q] ELSE [k |-> "dir"]]]
    ELSE [ok |-> FALSE, fs |-> fs]

WriteNode(fs, p, node) ==
    [q \in DOMAIN fs \cup {p} |-> IF q = p THEN node ELSE fs[q]]

OpaqueName == <<".wh.", ".wh.", ".opq">>
IsOpaqueMarker(name) == name = OpaqueName
\* a variant that takes no name for a whiteout
NeverWhiteout(name) == FALSE
IsWhiteout(name) == StartsWith(name, ".wh.")
\* the path a whiteout names: its parent joined with the name less ".wh."
WhiteoutTarget(p) ==
    IF Tail(FileName(p)) = <<>> THEN Parent(p)
    ELSE Append(Parent(p), Tail(FileName(p)))

RECURSIVE normalize_tar_path(_)
normalize_tar_path(p) ==
    IF p = <<>> THEN <<>>
    ELSE LET out == normalize_tar_path(Parent(p))
             comp == FileName(p)
         IN IF comp = <<".">> \/ comp = <<"/">> THEN out
            ELSE IF comp = <<"..">>
                 THEN (IF out = <<>> THEN out ELSE Parent(out))
            ELSE Append(out, comp)

(* ------------------------------ extract_tar ----------------------------- *)
\* one entry of the first pass, on st = [ok, fs]; an error ends the extraction
ExtractEntry(st, e) ==
    LET fs == st.fs
        rel == normalize_tar_path(e.path)
    IN IF ~st.ok THEN st
       ELSE IF rel # <<>> /\ IsOpaqueMarker(FileName(rel))
            THEN [ok |-> TRUE,
                  fs |-> IF IsDir(fs, Parent(rel)) THEN ClearDir(fs, Parent(rel))
                         ELSE fs]
       ELSE IF rel # <<>> /\ IsWhiteout(FileName(rel))
            THEN [ok |-> TRUE,
                  fs |-> IF Exists(fs, WhiteoutTarget(rel))
                         THEN RemovePath(fs, WhiteoutTarget(rel))
                         ELSE fs]
       ELSE LET par == create_dir_all(fs, Parent(rel))
            IN IF rel = <<>> \/ ~par.ok THEN [ok |-> FALSE, fs |-> fs]
               ELSE IF e.type = "dir" THEN create_dir_all(par.fs, rel)
               ELSE [ok |-> TRUE,
                     fs |-> WriteNode(RemovePath(par.fs, rel), rel, FileNode(e.c))]

RECURSIVE ExtractEntries(_, _)
ExtractEntries(st, entries) ==
    IF entries = <<>> THEN st
    ELSE ExtractEntries(ExtractEntry(st, Head(entries)), Tail(entries))

extract_tar(tar, extract_dir) ==
    ExtractEntries([ok |-> TRUE, fs |-> extract_dir], tar)

\* `tar -xf <layer> -C <dir>`: every entry is written under its own name, a
\* marker like any other file; a failed entry fails the command
TarEntry(st, e) ==
    LET fs == st.fs
        rel == normalize_tar_path(e.path)
        par == create_dir_all(fs, Parent(rel))
    IN IF ~st.ok THEN st
       ELSE IF rel = <<>> THEN (IF e.type = "dir" THEN st
                                ELSE [ok |-> FALSE, fs |-> fs])
       ELSE IF ~par.ok THEN [ok |-> FALSE, fs |-> fs]
       ELSE IF e.type = "dir" THEN create_dir_all(par.fs, rel)
       ELSE IF IsDir(par.fs, rel) THEN [ok |-> FALSE, fs |-> fs]
       ELSE [ok |-> TRUE, fs |-> WriteNode(par.fs, rel, FileNode(e.c))]

RECURSIVE TarEntries(_, _)
TarEntries(st, entries) ==
    IF entries = <<>> THEN st
    ELSE TarEntries(TarEntry(st, Head(entries)), Tail(entries))


(* --------------- extract_tar on a tree with links and modes ------------- *)
\* Here a tree holds the absolute paths of the whole machine and the directory
\* extracted into is one directory of it. A directory and a file carry a mode,
\* a symbolic link carries the path it points to, its components as written
\* ("." and ".." included). `denied` is the set of calls the system refuses.

\* what the absolute path p names: `reach` when the system's walk arrives at
\* a name, `ok` when an object is there; `path` is where the object is in the
\* tree. The walk goes along the components `rest` from the directory `cur`
\* and follows a symbolic link in every component, in the last one when `last`
\* (Path::exists and Path::is_dir do, fs::symlink_metadata and the removals do
\* not); `fuel` is the number of links it still follows, 40 at the start.
Real(fs, p, last) ==
    LET RECURSIVE Walk(_, _, _)
        Walk(cur, rest, fuel) ==
            IF rest = <<>> THEN [ok |-> TRUE, path |-> cur]
            ELSE IF ~IsDir(fs, cur) THEN [ok |-> FALSE, path |-> cur]
            ELSE LET c == Head(rest)
                     r == Tail(rest)
                     nxt == Append(cur, c)
                 IN IF c = <<".">> \/ c = <<"/">> THEN Walk(cur, r, fuel)
                    ELSE IF c = <<"..">>
                         THEN Walk(IF cur = <<>> THEN cur ELSE Parent(cur), r, fuel)
                    ELSE IF nxt \in DOMAIN fs /\ fs[nxt].k = "link"
                            /\ (r # <<>> \/ last)
                         THEN (IF fuel = 0 THEN [ok |-> FALSE, path |-> nxt]
                               ELSE Walk(<<>>, fs[nxt].to \o r, fuel - 1))
                    ELSE Walk(nxt, r, fuel)
        w == Walk(<<>>, p, 40)
    IN [reach |-> w.ok, ok |-> w.ok /\ Exists(fs, w.path), path |-> w.path]

\* fs::create_dir_all along links; a directory it makes has the mode 0o755
RECURSIVE MkdirAll(_, _)
MkdirAll(fs, p) ==
    LET Make(par) ==
            LET Place(at, bare) ==
                    IF ~par.ok \/ ~at.reach THEN [ok |-> FALSE, fs |-> par.fs]
                    ELSE IF at.ok THEN [ok |-> IsDir(par.fs, at.path), fs |-> par.fs]
                    ELSE IF bare.ok THEN [ok |-> FALSE, fs |-> par.fs]
                    ELSE [ok |-> TRUE,
                          fs |-> WriteNode(par.fs, at.path,
                                           [k |-> "dir", mode |-> 493])]
            IN Place(Real(par.fs, p, TRUE), Real(par.fs, p, FALSE))
    IN IF p = <<>> THEN [ok |-> TRUE, fs |-> fs]
       ELSE Make(MkdirAll(fs, Parent(p)))

\* fs::set_permissions: the last link is followed
Chmod(fs, p, mode, denied) ==
    LET at == Real(fs, p, TRUE)
    IN IF at.ok /\ at.path # <<>> /\ "set_permissions" \notin denied
       THEN [fs EXCEPT ![at.path].mode = mode]
       ELSE fs

\* fs::copy: both ends are followed, the content and the mode are copied
Copy(fs, from, to) ==
    LET src == Real(fs, from, TRUE)
        dst == Real(fs, to, TRUE)
    IN IF src.ok /\ src.path \in DOMAIN fs /\ fs[src.path].k = "file"
          /\ dst.reach /\ ~(dst.ok /\ IsDir(fs, dst.path))
       THEN [ok |-> TRUE, fs |-> WriteNode(fs, dst.path, fs[src.path])]
       ELSE [ok |-> FALSE, fs |-> fs]

\* a variant that finds no target
link_target_missing(fs, target, dest, denied) == [ok |-> FALSE, fs |-> fs]
\* the hard link of `target` at `dest`, a copy when the link cannot be made
try_link_or_copy(fs, target, dest, denied) ==
    LET there == Real(fs, dest, FALSE)
        removed == IF Real(fs, dest, TRUE).ok
                   THEN [ok |-> ~IsDir(fs, there.path),
                         fs |-> RemovePath(fs, there.path)]
                   ELSE [ok |-> TRUE, fs |-> fs]
        from == Real(removed.fs, target, FALSE)
        to == Real(removed.fs, dest, FALSE)
    IN IF ~Real(fs, target, TRUE).ok \/ ~removed.ok THEN [ok |-> FALSE, fs |-> fs]
       ELSE IF "hard_link" \notin denied /\ from.ok /\ ~IsDir(removed.fs, from.path)
               /\ to.reach /\ ~to.ok
            THEN [ok |-> TRUE,
                  fs |-> WriteNode(removed.fs, to.path, removed.fs[from.path])]
       ELSE Copy(removed.fs, target, dest)

\* one entry of the first pass, on st = [ok, fs, hard, sym]: the tree and the
\* two queues of links put off; an error ends the extraction
ExtractEntryAt(st, e, extract_dir, denied) ==
    LET Failed(f) == [st EXCEPT !.ok = FALSE, !.fs = f]
        Directory(dest, m) ==
            IF ~m.ok THEN Failed(m.fs)
            ELSE [st EXCEPT !.fs = Chmod(m.fs, dest, 448 + (e.mode % 64), denied)]
        Regular(dest, cleared) ==
            LET at == Real(cleared, dest, TRUE)
                mode == IF (e.mode \div 256) % 2 = 0 THEN e.mode + 256 ELSE e.mode
            IN IF ~at.reach \/ (at.ok /\ IsDir(cleared, at.path))
               THEN Failed(cleared)
               ELSE [st EXCEPT
                       !.fs = Chmod(WriteNode(cleared, at.path,
                                              [k |-> "file", c |-> e.c,
                                               mode |-> 420]),
                                    dest, mode, denied)]
        Symlink(dest, par) ==
            LET target_path ==
                    IF Head(e.link) = <<"/">>
                    THEN extract_dir \o normalize_tar_path(e.link)
                    ELSE Parent(dest) \o e.link
                at == Real(par, dest, FALSE)
            IN IF "symlink" \notin denied /\ at.reach /\ ~at.ok
               THEN [st EXCEPT
                       !.fs = WriteNode(par, at.path,
                                        [k |-> "link", to |-> target_path])]
               ELSE [st EXCEPT
                       !.fs = par,
                       !.sym = Append(@, [dest |-> dest, target |-> target_path])]
        \* the parent directory is there and has its mode: the tree is par
        Place(dest, par) ==
            IF e.type = "dir" THEN Directory(dest, MkdirAll(par, dest))
            ELSE IF e.type = "file"
                 THEN Regular(dest,
                              LET old == Real(par, dest, FALSE)
                              IN IF old.ok /\ old.path # <<>>
                                 THEN RemovePath(par, old.path) ELSE par)
            ELSE IF e.type = "symlink" THEN Symlink(dest, par)
            ELSE IF e.type = "hardlink"
                 THEN [st EXCEPT
                         !.fs = par,
                         !.hard = Append(@, [dest |-> dest,
                                             target |-> extract_dir
                                                 \o normalize_tar_path(e.link)])]
            ELSE [st EXCEPT !.fs = par]
        InParent(dest, made) ==
            IF ~made.ok THEN Failed(made.fs)
            ELSE Place(dest, Chmod(made.fs, Parent(dest), 493, denied))
        Entry(fs, rel, dest) ==
            IF rel # <<>> /\ IsOpaqueMarker(FileName(rel))
            THEN LET d == Real(fs, extract_dir \o Parent(rel), TRUE)
                 IN IF ~(d.ok /\ IsDir(fs, d.path)) THEN st
                    ELSE IF "read_dir" \in denied THEN Failed(fs)
                    ELSE IF "remove" \in denied THEN st
                    ELSE [st EXCEPT !.fs = ClearDir(fs, d.path)]
            ELSE IF rel # <<>> /\ IsWhiteout(FileName(rel))
                 THEN LET deleted_path == extract_dir \o WhiteoutTarget(rel)
                      IN IF Real(fs, deleted_path, TRUE).ok /\ "remove" \notin denied
                         THEN [st EXCEPT
                                 !.fs = RemovePath(fs, Real(fs, deleted_path,
                                                           FALSE).path)]
                         ELSE st
            ELSE InParent(dest, MkdirAll(fs, Parent(dest)))
    IN IF ~st.ok THEN st
       ELSE Entry(st.fs, normalize_tar_path(e.path),
                  extract_dir \o normalize_tar_path(e.path))

\* the four passes: the entries, the hard links, the hard links whose target
\* was missing, the symbolic links that could not be made
extract_tar_at(tar, world, extract_dir, denied) ==
    LET RECURSIVE First(_, _)
        First(st, entries) ==
            IF entries = <<>> THEN st
            ELSE First(ExtractEntryAt(st, Head(entries), extract_dir, denied),
                       Tail(entries))
        RECURSIVE Links(_, _, _)
        Links(fs, pending, failed) ==
            LET Linked(h, r) ==
                    Links(r.fs, Tail(pending),
                          IF r.ok THEN failed ELSE Append(failed, h))
            IN IF pending = <<>> THEN [fs |-> fs, failed |-> failed]
               ELSE Linked(Head(pending),
                           try_link_or_copy(fs, Head(pending).target,
                                            Head(pending).dest, denied))
        RECURSIVE Fallback(_, _)
        Fallback(fs, pending) ==
            IF pending = <<>> THEN fs
            ELSE LET l == Head(pending)
                 IN Fallback(IF Real(fs, l.target, TRUE).ok
                             THEN Copy(fs, l.target, l.dest).fs ELSE fs,
                             Tail(pending))
        FourthPass(first, third) ==
            [ok |-> TRUE, fs |-> Fallback(third.fs, first.sym),
             skipped |-> third.failed]
        ThirdPass(first, second) ==
            FourthPass(first, Links(second.fs, second.failed, <<>>))
        SecondPass(first) ==
            IF ~first.ok THEN [ok |-> FALSE, fs |-> first.fs, skipped |-> <<>>]
            ELSE ThirdPass(first, Links(first.fs, first.hard, <<>>))
    IN SecondPass(First([ok |-> TRUE, fs |-> world, hard |-> <<>>, sym |-> <<>>],
                        tar))

(* --------------------- scratch tree mirrored into rootfs ---------------- *)
\* one visited scratch path p, mirrored into the tree fs; failures are ignored
MirrorEntry(fs, scratch, p) ==
    IF IsOpaqueMarker(FileName(p))
    THEN (IF IsDir(fs, Parent(p)) THEN ClearDir(fs, Parent(p)) ELSE fs)
    ELSE IF IsWhiteout(FileName(p))
         THEN (IF Exists(fs, WhiteoutTarget(p))
               THEN RemovePath(fs, WhiteoutTarget(p)) ELSE fs)
    ELSE IF scratch[p].k = "dir" THEN create_dir_all(fs, p).fs
    ELSE LET cleared == IF Exists(fs, p) THEN RemovePath(fs, p) ELSE fs
             par == create_dir_all(cleared, Parent(p))
         IN IF par.ok THEN WriteNode(par.fs, p, scratch[p]) ELSE cleared

RECURSIVE MirrorWalk(_, _, _)
MirrorWalk(fs, scratch, order) ==
    IF order = <<>> THEN fs
    ELSE MirrorWalk(MirrorEntry(fs, scratch, Head(order)), scratch, Tail(order))

\* WalkDir visits a directory before its contents and the contents of one
\* directory together; the order of siblings is the order readdir yields
RECURSIVE WalkOrders(_, _)
WalkOrders(scratch, dir) ==
    LET kids == {p \in DOMAIN scratch : Len(p) = Len(dir) + 1 /\ IsPrefix(dir, p)}
        Sub(p) == IF scratch[p].k = "dir"
                  THEN {<<p>> \o o : o \in WalkOrders(scratch, p)}
                  ELSE {<<p>>}
        RECURSIVE Arrange(_)
        Arrange(rest) ==
            IF rest = {} THEN {<<>>}
            ELSE UNION {{s \o t : s \in Sub(p), t \in Arrange(rest \ {p})} : p \in rest}
    IN Arrange(kids)

(* ------------------------------ repository ------------------------------ *)
\* A repository value R holds the object store (commits, an OID is a position
\* in it, 0 is no commit), the branch refs, the branch HEAD names, the index
\* and the work tree (rootfs/ and Image.md).
NullImage == [ref |-> "", history |-> <<>>, layers |-> <<>>]
UnknownInfo == [name |-> "Unknown", id |-> NullImage]
NoFile == [exists |-> FALSE, info |-> UnknownInfo, table |-> <<>>]
EmptyTree == [files |-> [p \in {} |-> ""], md |-> NoFile]
DefaultBranch == [base |-> "master", digest |-> NullImage]

\* what add_all(["*"]) stages: every file of the work tree (git keeps no
\* directory of its own)
WorkTree(R) ==
    [files |-> [p \in {q \in DOMAIN R.rootfs : R.rootfs[q].k = "file"} |->
                   R.rootfs[p].c],
     md |-> R.imageMd]

TreeIsEmpty(t) == DOMAIN t.files = {} /\ ~t.md.exists

HeadCommit(R) == IF R.head \in DOMAIN R.branches THEN R.branches[R.head] ELSE 0

\* a variant whose commit is a root commit whatever HEAD points to
commit_as_root(R, message) ==
    LET tree == WorkTree(R)
        oid == Len(R.commits) + 1
    IN [R EXCEPT
          !.commits = Append(R.commits,
                             [parent |-> 0, message |-> message, tree |-> tree,
                              digests |-> IF tree.md.exists
                                          THEN parse_markdown(tree.md)
                                          ELSE <<>>]),
          !.branches = [b \in DOMAIN R.branches \cup {R.head} |->
                           IF b = R.head THEN oid ELSE R.branches[b]],
          !.index = tree]

\* returns the repository after the commit; has_changes is HasChanges of it.
\* The commit object carries, beside its tree, the layer chain that
\* parse_markdown reads from the tree's Image.md: a function of the blob,
\* computed here once instead of at every read.
commit_all_changes(R, message) ==
    LET tree == WorkTree(R)
        oid == Len(R.commits) + 1
    IN [R EXCEPT
          !.commits = Append(R.commits,
                             [parent |-> HeadCommit(R), message |-> message,
                              tree |-> tree,
                              digests |-> IF tree.md.exists
                                          THEN parse_markdown(tree.md)
                                          ELSE <<>>]),
          !.branches = [b \in DOMAIN R.branches \cup {R.head} |->
                           IF b = R.head THEN oid ELSE R.branches[b]],
          !.index = tree]

HasChanges(R) == ~TreeIsEmpty(R.index)

\* reset --hard to a commit: tracked paths follow the commit's tree, untracked
\* ones stay, directories emptied of tracked files go
ResetHard(R, oid) ==
    LET tree == R.commits[oid].tree
        tracked == DOMAIN R.index.files
        clash(q) == \E p \in DOMAIN tree.files : IsPrefix(p, q) \/ IsPrefix(q, p)
        keptFiles == {q \in DOMAIN R.rootfs :
                        R.rootfs[q].k = "file" /\ q \notin tracked /\ ~clash(q)}
        keptDirs == {q \in DOMAIN R.rootfs :
                       /\ R.rootfs[q].k = "dir"
                       /\ ~\E t \in tracked : IsPrefix(q, t)
                       /\ ~\E p \in DOMAIN tree.files : IsPrefix(p, q)}
        present == DOMAIN tree.files \cup keptFiles \cup keptDirs
        all == present \cup UNION {Prefixes(Parent(p)) : p \in present}
    IN [R EXCEPT
          !.rootfs = [q \in all |->
                         IF q \in DOMAIN tree.files THEN FileNode(tree.files[q])
                         ELSE IF q \in keptFiles THEN R.rootfs[q]
                         ELSE [k |-> "dir"]],
          !.imageMd = tree.md,
          !.index = tree]

\* Some(oid): repo.branch(name, target, force = false), set_head, reset hard.
\* None: set_head alone, which leaves refs, index and work tree as they are.
create_branch(R, name, from) ==
    IF from # 0
    THEN IF name \in DOMAIN R.branches THEN [ok |-> FALSE, repo |-> R]
         ELSE [ok |-> TRUE,
               repo |-> ResetHard(
                   [R EXCEPT !.branches = [b \in DOMAIN R.branches \cup {name} |->
                                              IF b = name THEN from
                                              ELSE R.branches[b]],
                             !.head = name],
                   from)]
    ELSE [ok |-> TRUE, repo |-> [R EXCEPT !.head = name]]


\* oldest first
RECURSIVE Ancestry(_, _)
Ancestry(R, oid) ==
    IF oid = 0 THEN <<>> ELSE Append(Ancestry(R, R.commits[oid].parent), oid)

get_branch_commits(R, name) == Ancestry(R, R.branches[name])

\* the numbers of a set, smallest first
Ascending(S) ==
    [k \in 1..Cardinality(S) |->
        CHOOSE p \in S : Cardinality({q \in S : q < p}) = k - 1]

\* what the loops over the branches push: for Some(target) the commit after
\* each place of target in a branch's list, unless it is the last; for None
\* the first commit of each branch's list
RECURSIVE PushedSuccessors(_, _, _)
PushedSuccessors(R, target, names) ==
    IF names = {} THEN <<>>
    ELSE LET name == CHOOSE b \in names : TRUE
             cs == get_branch_commits(R, name)
             hits == {i \in 1..(Len(cs) - 1) : cs[i] = target}
             After(at) == [k \in 1..Len(at) |-> cs[at[k] + 1]]
         IN (IF target # 0 THEN After(Ascending(hits))
             ELSE IF cs # <<>> THEN <<cs[1]>> ELSE <<>>)
            \o PushedSuccessors(R, target, names \ {name})

\* a variant that returns what was pushed as it is
get_commit_successors_as_pushed(R, target) ==
    PushedSuccessors(R, target, DOMAIN R.branches)

\* sort() and dedup(): the list is sorted by OID, an order the content hash
\* fixes and the navigator cannot choose
get_commit_successors(R, target) ==
    LET pushed == PushedSuccessors(R, target, DOMAIN R.branches)
    IN Ascending({pushed[i] : i \in 1..Len(pushed)})

\* the blob of Image.md in the commit's tree as text: an error when the tree
\* has no such entry or the blob is not UTF-8
read_file_from_commit(R, oid) ==
    LET md == R.commits[oid].tree.md
    IN IF md.exists /\ ~Contains(md.table, "<invalid-utf8>") THEN Some(md) ELSE None

(* ------------------------------ navigator ------------------------------- *)
\* a variant that parses the blob whether or not it can be read as text
read_digests_of_any_blob(R, oid) == R.commits[oid].digests
\* Image.md of the commit, parsed; an Image.md that cannot be read gives the
\* empty tracker
read_digests_from_commit(R, oid) ==
    IF read_file_from_commit(R, oid).some THEN R.commits[oid].digests ELSE <<>>

\* a variant that looks for the layer at every position of the commit's chain
commit_has_layer_anywhere(R, oid, position, layer) ==
    \E p \in 0..(Len(read_digests_from_commit(R, oid)) - 1) :
        layer_matches(read_digests_from_commit(R, oid), p, layer)

commit_has_layer_at_position(R, oid, position, layer) ==
    layer_matches(read_digests_from_commit(R, oid), position, layer)

\* every (commit, matched_count) the walk can return, over the orders in which
\* the candidates of a step can come
RECURSIVE WalkFrom(_, _, _, _)
WalkFrom(R, layers, current, layer_index) ==
    IF layer_index >= Len(layers) THEN {<<current, layer_index>>}
    ELSE LET candidates == get_commit_successors(R, current)
             found == {c \in {candidates[i] : i \in 1..Len(candidates)} :
                         commit_has_layer_at_position(R, c, layer_index,
                                                      layers[layer_index + 1])}
         IN IF found = {} THEN {<<current, layer_index>>}
            ELSE UNION {WalkFrom(R, layers, c, layer_index + 1) : c \in found}

find_branch_point(R, layers) ==
    IF layers = <<>> THEN {<<0, 0>>} ELSE WalkFrom(R, layers, 0, 0)

(* --------------------------- input universes ---------------------------- *)
SeqsUpTo(S, n) == UNION {[1..k -> S] : k \in 0..n}

Instant == "2023-01-01T00:00:00"

\* tar entries: regular files a/x and a/y, the whiteout of a/x, the opaque
\* marker of a/, and a file below a directory that carries a whiteout's name
FileX == [type |-> "file", path |-> <<<<"a">>, <<"x">>>>, c |-> "1"]
Entries ==
    {FileX,
     [type |-> "file", path |-> <<<<"a">>, <<"y">>>>, c |-> "1"],
     [type |-> "file", path |-> <<<<"a">>, <<".wh.", "x">>>>, c |-> ""],
     [type |-> "file", path |-> <<<<"a">>, OpaqueName>>, c |-> ""],
     [type |-> "file", path |-> <<<<".wh.", "a">>, <<"x">>>>, c |-> "1"]}

Tars(n) == SeqsUpTo(Entries, n) \ {<<>>}

\* a layer blob under blobs/sha256/, named by the digest of its content
Blob(tar) == [parent |-> "sha256", name |-> <<ToString(tar)>>, tar |-> tar]

HistoryEntry(created_by, empty_layer) ==
    [created_by |-> created_by, empty_layer |-> empty_layer,
     created |-> Instant, comment |-> NoComment]

\* history universe: two declared-empty entries whose commands differ by a
\* backtick, and a non-empty entry; the manifest lists at most one blob per
\* non-empty entry
HistoryImages ==
    LET Alphabet == {HistoryEntry(<<"a">>, TRUE),
                     HistoryEntry(<<"a", Backtick>>, TRUE),
                     HistoryEntry(<<"b">>, FALSE)}
        NonEmptyCount(history) ==
            Cardinality({i \in 1..Len(history) : ~history[i].empty_layer})
        ManifestLayers(history) ==
            {m \in SeqsUpTo({Blob(<<FileX>>)}, NonEmptyCount(history)) :
                \A i, j \in 1..Len(m) : m[i] = m[j] => i = j}
    IN UNION {{[ref |-> "img", history |-> h, layers |-> l] :
                  l \in ManifestLayers(h)} :
                 h \in SeqsUpTo(Alphabet, MaxHist)}

\* overlay universe: every history entry is non-empty and backed by a blob
RECURSIVE TarSeqs(_)
TarSeqs(n) ==
    {<<>>} \cup UNION {{<<t>> \o rest : rest \in TarSeqs(n - Len(t))} : t \in Tars(n)}

RECURSIVE CountEntries(_)
CountEntries(tars) ==
    IF tars = <<>> THEN 0 ELSE Len(Head(tars)) + CountEntries(Tail(tars))

OverlayImage(tars) ==
    [ref |-> "img",
     history |-> [i \in 1..Len(tars) |-> HistoryEntry(<<"b">>, FALSE)],
     layers |-> [i \in 1..Len(tars) |-> Blob(tars[i])]]


(* ------------------------------- convert -------------------------------- *)
Repo ==
    [commits |-> commits, branches |-> branches, head |-> head,
     index |-> index, rootfs |-> rootfs, imageMd |-> imageMd]

SetRepo(R) ==
    /\ commits' = R.commits
    /\ branches' = R.branches
    /\ head' = R.head
    /\ index' = R.index
    /\ rootfs' = R.rootfs
    /\ imageMd' = R.imageMd

\* <base>#<short digest>: the image's name and the digest of its content
BranchName(image) == [base |-> image.ref, digest |-> image]
ImageInfo(image) == [name |-> image.ref, id |-> image]

\* a variant that marks every layer as blob-backed
AlwaysGreen(layer) == "green-circle"
\* a variant whose marker depends on the way the run applies its layers
MarkerOfStrategy(layer) ==
    IF HasTarball(layer) /\ run.strategy # "scratch" THEN "green-circle"
    ELSE IF layer.is_empty THEN "white-circle"
    ELSE "black-circle"
LayerMarker(layer) ==
    IF HasTarball(layer) THEN "green-circle"
    ELSE IF layer.is_empty THEN "white-circle"
    ELSE "black-circle"
MetadataMessage == <<"hammer-and-wrench", " - ", "Metadata">>

\* how a layer's archive reaches rootfs: extract_tar into a scratch tree that
\* is then mirrored, extract_tar straight into rootfs, or `tar -xf` into the
\* scratch tree that is then mirrored
ApplyLayer(strategy, tar, fs) ==
    IF strategy = "direct" THEN {extract_tar(tar, fs)}
    ELSE LET scratch == IF strategy = "scratch" THEN extract_tar(tar, EmptyFs)
                        ELSE TarEntries([ok |-> TRUE, fs |-> EmptyFs], tar)
         IN IF ~scratch.ok THEN {[ok |-> FALSE, fs |-> fs]}
            ELSE {[ok |-> TRUE, fs |-> MirrorWalk(fs, scratch.fs, order)] :
                     order \in WalkOrders(scratch.fs, <<>>)}

NoRun ==
    [image |-> NullImage, layers |-> <<>>, i |-> 0, tracker |-> <<>>,
     strategy |-> "", before |-> {}, commits0 |-> 0, branches0 |-> <<>>,
     head0 |-> DefaultBranch, start |-> 0, skip |-> 0, existed |-> FALSE]
NoResult == [outcome |-> "none", of |-> NoRun]

\* the call returns: what it returned and what it was called on are kept
Finish(outcome, r) ==
    /\ pc' = "idle"
    /\ run' = NoRun
    /\ result' = [outcome |-> outcome,
                  of |-> [r EXCEPT !.i = 0, !.tracker = <<>>, !.strategy = ""]]
    /\ converted' = IF outcome = "ok" THEN converted \cup {r.image} ELSE converted

\* steps 1 to 7: load the layers, find the branch point, create or select the
\* branch, load the tracker
ConvertStart(image, cost, strategies) ==
    /\ pc = "idle"
    /\ used' = used + cost
    /\ UNCHANGED <<scratchFs, directFs, replayed, produced, arg, ret>>
    /\ LET R == Repo
           layers == load_layers_from_dir(image)
           name == BranchName(image)
       IN \E nav \in (IF DOMAIN R.branches # {} THEN find_branch_point(R, layers)
                      ELSE {<<0, 0>>}),
             strategy \in strategies :
            LET r == [image |-> image, layers |-> layers, i |-> nav[2],
                      tracker |-> IF nav[1] # 0
                                  THEN read_digests_from_commit(R, nav[1])
                                  ELSE <<>>,
                      strategy |-> strategy, before |-> converted,
                      commits0 |-> Len(R.commits), branches0 |-> R.branches,
                      head0 |-> R.head, start |-> nav[1], skip |-> nav[2],
                      existed |-> name \in DOMAIN R.branches]
                made == create_branch(R, name, nav[1])
            IN IF DOMAIN R.branches # {} /\ name \in DOMAIN R.branches
                  /\ nav[2] = Len(layers)
               THEN SetRepo(R) /\ Finish("already", r)
               ELSE IF ~made.ok THEN SetRepo(R) /\ Finish("error", r)
               ELSE IF layers = <<>> THEN SetRepo(made.repo) /\ Finish("nolayers", r)
               ELSE /\ SetRepo(made.repo)
                    /\ pc' = "replay"
                    /\ run' = r
                    /\ result' = NoResult
                    /\ converted' = converted

\* step 8, one layer: skip it when the tracker holds it; else apply its tarball
\* if it has one, append it to the tracker, write Image.md and commit
ConvertLayer ==
    /\ pc = "replay"
    /\ run.i < Len(run.layers)
    /\ UNCHANGED <<used, scratchFs, directFs, replayed, produced, arg, ret>>
    /\ LET R == Repo
           layer == run.layers[run.i + 1]
           tracker == add_layer(run.tracker, layer)
       IN IF layer_matches(run.tracker, run.i, layer)
          THEN /\ SetRepo(R)
               /\ run' = [run EXCEPT !.i = @ + 1]
               /\ UNCHANGED <<pc, result, converted>>
          ELSE \E out \in (IF HasTarball(layer)
                           THEN ApplyLayer(run.strategy, layer.tarball_path.tar,
                                           R.rootfs)
                           ELSE {[ok |-> TRUE, fs |-> R.rootfs]}) :
                 LET applied == [R EXCEPT !.rootfs = out.fs]
                     written == [applied EXCEPT
                                   !.imageMd = render_markdown(UnknownInfo, tracker)]
                 IN IF ~out.ok THEN SetRepo(applied) /\ Finish("error", run)
                    ELSE IF run.i # Len(run.tracker)   \* add_layer's assert_eq
                         THEN SetRepo(applied) /\ Finish("panic", run)
                    ELSE /\ SetRepo(commit_all_changes(
                                        written, <<LayerMarker(layer), " - ">>
                                                 \o layer.command))
                         /\ run' = [run EXCEPT !.i = @ + 1, !.tracker = tracker]
                         /\ UNCHANGED <<pc, result, converted>>

\* step 9: the complete Image.md and the Metadata commit
ConvertMetadata ==
    /\ pc = "replay"
    /\ run.i = Len(run.layers)
    /\ UNCHANGED <<used, scratchFs, directFs, replayed, produced, arg, ret>>
    /\ LET written == [Repo EXCEPT
                         !.imageMd = render_markdown(ImageInfo(run.image),
                                                     run.tracker)]
       IN SetRepo(commit_all_changes(written, MetadataMessage))
    /\ Finish("ok", run)

\* one layer through both pipelines, each into a tree of its own
ReplayLayer(tar) ==
    /\ pc = "idle"
    /\ used + Len(tar) <= MaxEntries
    /\ used' = used + Len(tar)
    /\ replayed' = Append(replayed, tar)
    /\ \E a \in ApplyLayer("scratch", tar, scratchFs),
          b \in ApplyLayer("direct", tar, directFs) :
            /\ a.ok /\ b.ok
            /\ scratchFs' = a.fs
            /\ directFs' = b.fs
    /\ UNCHANGED <<commits, branches, head, index, rootfs, imageMd, pc, run,
                   result, converted, produced, arg, ret>>

\* a variant that does not look for manifest.json
from_tarball_unchecked(tarball) ==
    [ok |-> TRUE,
     image |-> IF tarball.manifest.some THEN tarball.manifest.value ELSE NullImage]
\* the outer archive of an image tarball, with or without manifest.json
from_tarball(tarball) ==
    IF ~tarball.manifest.some THEN [ok |-> FALSE, image |-> NullImage]
    ELSE [ok |-> TRUE, image |-> tarball.manifest.value]

(* ----------------------------- branch names ----------------------------- *)
\* a reference and a digest are sequences of tokens; ":", "/", "@" and the
\* prefix "sha256:" are tokens of their own, a digest's other tokens are
\* single characters
container_image_to_branch(image_name) ==
    LET normalized == IF ~Contains(image_name, ":") /\ ~Contains(image_name, "@")
                      THEN image_name \o <<":", "latest">>
                      ELSE image_name
    IN ReplaceToken(ReplaceToken(ReplaceToken(normalized, ":", "#"), "/", "-"),
                    "@", "-")

extract_short_digest(image_id) ==
    IF StartsWith(image_id, "sha256:")
    THEN Some(SubSeq(Tail(image_id), 1,
                     IF Len(image_id) - 1 < 12 THEN Len(image_id) - 1 ELSE 12))
    ELSE None

branch_name(image_name, os_arch, image_digest) ==
    LET base_branch == container_image_to_branch(image_name)
        short_digest == extract_short_digest(image_digest)
    IN IF short_digest.some
       THEN base_branch \o <<"#">> \o os_arch \o <<"#">> \o short_digest.value
       ELSE base_branch \o <<"#">> \o os_arch \o <<"#">> \o image_digest

(* ---------------------------- specifications ---------------------------- *)
\* an empty output directory, no call running
EmptyOutputDirectory ==
    /\ commits = <<>>
    /\ branches = <<>>
    /\ head = DefaultBranch
    /\ index = EmptyTree
    /\ rootfs = EmptyFs
    /\ imageMd = NoFile
    /\ pc = "idle"
    /\ run = NoRun
    /\ result = NoResult
    /\ converted = {}
    /\ used = 0
    /\ scratchFs = EmptyFs
    /\ directFs = EmptyFs
    /\ replayed = <<>>

NoProduct == [image |-> NullImage, messages |-> <<>>]
Nothing == [none |-> TRUE]

Init ==
    /\ EmptyOutputDirectory
    /\ produced = NoProduct
    /\ arg = Nothing
    /\ ret = Nothing

\* an image of the history universe; its one blob gives the same tree
\* whichever way it is applied
ConvertWithin(budget) ==
    \E image \in HistoryImages :
        /\ Len(commits) + Len(image.history) + 1 <= budget
        /\ ConvertStart(image, 0, {"direct"})


ConvertOverlayImage ==
    \E image \in {OverlayImage(tars) :
                    tars \in TarSeqs(MaxEntries - used) \ {<<>>}} :
        ConvertStart(image,
                     CountEntries([i \in 1..Len(image.layers) |->
                                      image.layers[i].tar]),
                     {"scratch", "direct", "archive"})


Spec == Init /\ [][ConvertWithin(MaxCommits) \/ ConvertLayer \/ ConvertMetadata]_vars

SpecNav ==
    Init /\ [][ConvertWithin(MaxNavCommits) \/ ConvertLayer \/ ConvertMetadata]_vars

SpecOverlay == Init /\ [][ConvertOverlayImage \/ ConvertLayer \/ ConvertMetadata]_vars

\* steps 1 and 2 on a tarball handed in, then the rest of the call: the image
\* is built from the tarball before the repository is opened
ConvertTarball ==
    \E tarball \in {[manifest |-> None]}
                      \cup {[manifest |-> Some(image)] : image \in HistoryImages} :
        LET extracted == from_tarball(tarball)
        IN IF ~extracted.ok
           THEN /\ pc = "idle"
                /\ SetRepo(Repo)
                /\ Finish("error", NoRun)
                /\ UNCHANGED <<used, scratchFs, directFs, replayed, produced,
                               arg, ret>>
           ELSE /\ Len(commits) + Len(extracted.image.history) + 1 <= MaxNavCommits
                /\ ConvertStart(extracted.image, 0, {"direct"})

SpecTarball == Init /\ [][ConvertTarball \/ ConvertLayer \/ ConvertMetadata]_vars

\* the work tree is edited or left as it is (one archive entry unpacked over
\* rootfs, Image.md written or removed) and commit_all_changes is called;
\* ret is what it returned
CommitWorkTree ==
    /\ pc = "idle"
    /\ Len(commits) < MaxHist
    /\ \E tar \in Tars(1) \cup {<<>>},
          md \in {imageMd, NoFile, render_markdown(UnknownInfo, <<>>)} :
          LET edited == [Repo EXCEPT !.rootfs = extract_tar(tar, rootfs).fs,
                                    !.imageMd = md]
              after == commit_all_changes(edited, <<"m">>)
          IN /\ SetRepo(after)
             /\ ret' = [has_changes |-> HasChanges(after)]
    /\ UNCHANGED <<pc, run, result, converted, used, scratchFs, directFs,
                   replayed, produced, arg>>

SpecCommit == Init /\ [][CommitWorkTree]_vars

SpecReplay ==
    Init /\ [][\E tar \in Tars(MaxEntries - used) : ReplayLayer(tar)]_vars

\* the messages of the commits of a branch, oldest first; none when the
\* branch does not exist
BranchMessages(name) ==
    IF name \in DOMAIN branches
    THEN LET cs == get_branch_commits(Repo, name)
         IN [j \in 1..Len(cs) |-> commits[cs[j]].message]
    ELSE <<>>

\* a run into an empty output directory, applying its layers in any of the
\* ways; once a run is on record the next runs are given the same image
ConvertFresh ==
    \E image \in HistoryImages :
        /\ produced = NoProduct \/ image = produced.image
        /\ commits = <<>>
        /\ branches = <<>>
        /\ result = NoResult
        /\ ConvertStart(image, 0, {"scratch", "direct", "archive"})

\* the run's repository is set aside, its image and the messages on the
\* produced branch are kept, and the next run gets an empty output directory
NewOutputDirectory ==
    /\ pc = "idle"
    /\ result # NoResult
    /\ produced' = [image |-> result.of.image,
                    messages |-> BranchMessages(BranchName(result.of.image))]
    /\ commits' = <<>>
    /\ branches' = <<>>
    /\ head' = DefaultBranch
    /\ index' = EmptyTree
    /\ rootfs' = EmptyFs
    /\ imageMd' = NoFile
    /\ run' = NoRun
    /\ result' = NoResult
    /\ converted' = {}
    /\ used' = 0
    /\ UNCHANGED <<pc, scratchFs, directFs, replayed, arg, ret>>

SpecRuns ==
    Init /\ [][ConvertFresh \/ ConvertLayer \/ ConvertMetadata
               \/ NewOutputDirectory]_vars

\* a row without any special character
PlainRow ==
    [digest |-> <<"sha256:", "d">>, command |-> <<"a">>,
     created |-> ToRfc3339(Instant), is_empty |-> FALSE, comment |-> NoComment]

\* the table's universe: a command of up to MaxText characters, among them the
\* pipe, the backslash, the quote, the backtick, the newline and the space; a
\* comment that is absent, empty or one character; a row before or after it
Tables ==
    LET TextAlphabet == {"a", "|", "\\", "\"", Backtick, "\n", " "}
        Comments ==
            {NoComment}
            \cup {[some |-> TRUE, text |-> t] : t \in SeqsUpTo(TextAlphabet, 1)}
        TableRows ==
            {[digest |-> IF e THEN <<"empty">> ELSE <<"sha256:", "d">>,
              command |-> c, created |-> ToRfc3339(Instant), is_empty |-> e,
              comment |-> k] :
                c \in SeqsUpTo(TextAlphabet, MaxText), k \in Comments,
                e \in BOOLEAN}
    IN UNION {{<<r>>, <<r, PlainRow>>, <<PlainRow, r>>} : r \in TableRows}

\* a function is about to be applied to one of the inputs; no repository
Given(inputs) ==
    /\ EmptyOutputDirectory
    /\ produced = NoProduct
    /\ arg \in inputs
    /\ ret = Nothing

\* save_markdown, then load_markdown
WriteThenRead ==
    /\ ret = Nothing
    /\ ret' = [layer_digests |->
                  parse_markdown(render_markdown(UnknownInfo, arg.layer_digests))]
    /\ UNCHANGED <<commits, branches, head, index, rootfs, imageMd, pc, run,
                   result, converted, used, scratchFs, directFs, replayed,
                   produced, arg>>

SpecTable == Given([layer_digests : Tables]) /\ [][WriteThenRead]_vars

\* the files' universe: basic information or none, with up to two tags; a
\* container configuration or none, each of its sections present or absent;
\* a layer table of no row or one
Files ==
    LET BasicInfos ==
            {[name |-> <<"a", ":", "1">>, id |-> <<"sha256:", "d">>, tags |-> t,
              created |-> <<Instant, "Z">>, architecture |-> <<"amd64">>,
              os |-> <<"linux">>] :
                t \in {<<>>, <<<<"a", ":", "1">>>>,
                       <<<<"a", ":", "1">>, <<"a", ":", "2">>>>}}
        ContainerConfigs ==
            [environment_variables : {<<>>, <<<<"PATH", "=", "/", "bin">>>>},
             command : {None, Some(<<"bash">>)},
             entrypoint : {None, Some(<<"entry", ".", "sh">>)},
             working_directory : {<<>>, <<"/">>, <<"/", "app">>},
             exposed_ports : {<<>>, <<<<"80", "/", "tcp">>>>},
             labels : {{}, {<<<<"maintainer">>, <<"a", " ", "team">>>>}}]
    IN [basic_info : {None} \cup {Some(b) : b \in BasicInfos},
        container_config : {None} \cup {Some(c) : c \in ContainerConfigs},
        layer_digests : {<<>>, <<PlainRow>>}]

\* save_markdown, then load_markdown, of the whole file
WriteThenReadFile ==
    /\ ret = Nothing
    /\ ret' = parse_markdown_text(render_markdown_text(arg))
    /\ UNCHANGED <<commits, branches, head, index, rootfs, imageMd, pc, run,
                   result, converted, used, scratchFs, directFs, replayed,
                   produced, arg>>

SpecFile == Given(Files) /\ [][WriteThenReadFile]_vars

\* the matching universe: a tracker of up to MaxChain entries, the last of
\* them any entry of two instants, two zone spellings, two commands and four
\* digests; a position up to MaxChain; a layer of four ids
MatchInputs ==
    LET OtherInstant == "2024-02-02T00:00:00"
        EmptyLayerId == <<"<", "empty-layer-", "0", ">">>
        StoredEntries ==
            [digest : {<<"sha256:", "d">>, <<"d">>, EmptyLayerId, <<"empty">>},
             command : {<<"a">>, <<"b">>},
             created : {<<Instant, "Z">>, <<Instant, "+00:00">>,
                        <<OtherInstant, "Z">>},
             is_empty : BOOLEAN,
             comment : {NoComment}]
        Trackers ==
            {<<>>} \cup {[i \in 1..n |-> IF i < n THEN PlainRow ELSE e] :
                            n \in 1..MaxChain, e \in StoredEntries}
        AskedLayers ==
            [id : {<<"d">>, <<"sha256:", "d">>, EmptyLayerId, <<"e">>},
             command : {<<"a">>, <<"b">>},
             created_at : {Instant, OtherInstant},
             is_empty : BOOLEAN,
             tarball_path : {NoTarball},
             digest : {<<"sha256:", "d">>},
             comment : {NoComment}]
    IN [tracker : Trackers, position : 0..MaxChain, layer : AskedLayers]

AskMatch ==
    /\ ret = Nothing
    /\ ret' = [matches |-> layer_matches(arg.tracker, arg.position, arg.layer)]
    /\ UNCHANGED <<commits, branches, head, index, rootfs, imageMd, pc, run,
                   result, converted, used, scratchFs, directFs, replayed,
                   produced, arg>>

SpecMatch == Given(MatchInputs) /\ [][AskMatch]_vars

\* the pairing universe: up to MaxHist history entries, each declared empty or
\* not and each with a command of its own; a manifest that lists from no blob
\* to one more than MaxHist, all under blobs/sha256/, all named sha256:<hex>,
\* or all named <hex>/layer.tar
PairingImages ==
    LET BlobForms == {"blobs/sha256/<hex>", "sha256:<hex>", "<hex>/layer.tar"}
        PairingBlob(form, k) ==
            IF form = "blobs/sha256/<hex>"
            THEN [parent |-> "sha256", name |-> <<IndexToken(k)>>, tar |-> <<>>]
            ELSE IF form = "sha256:<hex>"
            THEN [parent |-> "layers", name |-> <<"sha256:", IndexToken(k)>>,
                  tar |-> <<>>]
            ELSE [parent |-> IndexToken(k), name |-> <<"layer.tar">>, tar |-> <<>>]
        PairingHistories ==
            UNION {{[i \in 1..n |-> HistoryEntry(<<"c", IndexToken(i)>>, e[i])] :
                       e \in [1..n -> BOOLEAN]} : n \in 0..MaxHist}
    IN {[ref |-> "img", history |-> h,
         layers |-> [k \in 1..n |-> PairingBlob(f, k)]] :
            h \in PairingHistories, n \in 0..(MaxHist + 1), f \in BlobForms}

\* the layer list of the image as ExtractedImage and as ImageProcessor build
\* it, the Image.md row of each record of the first, and whether each record
\* matches, at its position, the chain recorded from the list, as it is and
\* as read back from Image.md
LoadLayers ==
    /\ ret = Nothing
    /\ ret' = LET layers == load_layers_from_dir(arg)
                  recorded == [i \in 1..Len(layers) |->
                                  add_layer(<<>>, layers[i])[1]]
                  Matches(chain) ==
                      [i \in 1..Len(layers) |-> layer_matches(chain, i - 1, layers[i])]
              IN [layers |-> layers,
                  listed |-> get_layers(arg),
                  rows |-> [i \in 1..Len(layers) |->
                              RenderRow(add_layer(<<>>, layers[i])[1])],
                  matches |-> Matches(recorded),
                  reread |-> Matches(parse_markdown(
                                 render_markdown(UnknownInfo, recorded)))]
    /\ UNCHANGED <<commits, branches, head, index, rootfs, imageMd, pc, run,
                   result, converted, used, scratchFs, directFs, replayed,
                   produced, arg>>

SpecLayers == Given(PairingImages) /\ [][LoadLayers]_vars

\* the id universe: no index.json, or one without a manifests array, or one
\* with up to MaxManifests entries, each without a digest or with an empty
\* one or with one of two; a config path of each form
IdInputs ==
    LET ManifestEntries ==
            [digest : {None, Some(<<>>), Some(<<"sha256:", "m">>),
                       Some(<<"sha256:", "n">>)}]
        Indexes ==
            {None, Some([manifests |-> None])}
            \cup {Some([manifests |-> Some(ms)]) :
                     ms \in SeqsUpTo(ManifestEntries, MaxManifests)}
        ConfigFiles ==
            {<<"blobs/sha256/", "c">>, <<"c", ".json">>,
             <<"blobs/sha256/", "c", ".json">>, <<"c">>, <<"dir/", "c", ".json">>}
    IN [index_json : Indexes, config_file : ConfigFiles]

LoadMetadata ==
    /\ ret = Nothing
    /\ ret' = [id |-> load_metadata_id(arg.index_json, arg.config_file)]
    /\ UNCHANGED <<commits, branches, head, index, rootfs, imageMd, pc, run,
                   result, converted, used, scratchFs, directFs, replayed,
                   produced, arg>>

SpecId == Given(IdInputs) /\ [][LoadMetadata]_vars

\* the archives' universe. The machine has the directory /t (mode 0o700), in
\* it the empty directory /t/d extracted into and, outside that, the directory
\* /t/o (mode 0o700) with the file /t/o/f.
\* An archive has up to MaxEntries of: the file a/f with one content or
\* another, the directory ".", the hard link b/l to a/f, the whiteout of a/f,
\* the opaque marker of a/, the symbolic link a with the absolute name /b or
\* with the relative name ../o, and the file /../o/f. The system refuses
\* nothing or one kind of call.
TarInputs ==
    LET File(path, c, mode) ==
            [type |-> "file", path |-> path, c |-> c, mode |-> mode, link |-> <<>>]
        Link(type, path, link) ==
            [type |-> type, path |-> path, c |-> "", mode |-> 511, link |-> link]
        a == <<"a">>
        f == <<"f">>
        Alphabet ==
            {File(<<a, f>>, "1", 420), File(<<a, f>>, "2", 0),
             [type |-> "dir", path |-> <<<<".">>>>, c |-> "", mode |-> 493,
              link |-> <<>>],
             Link("hardlink", <<<<"b">>, <<"l">>>>, <<a, f>>),
             File(<<a, <<".wh.", "f">>>>, "", 420), File(<<a, OpaqueName>>, "", 420),
             Link("symlink", <<a>>, <<<<"/">>, <<"b">>>>),
             Link("symlink", <<a>>, <<<<"..">>, <<"o">>>>),
             File(<<<<"/">>, <<"..">>, <<"o">>, f>>, "3", 420)}
        t == <<"t">>
        Machine ==
            (<<t>> :> [k |-> "dir", mode |-> 448])
            @@ (<<t, <<"d">>>> :> [k |-> "dir", mode |-> 493])
            @@ (<<t, <<"o">>>> :> [k |-> "dir", mode |-> 448])
            @@ (<<t, <<"o">>, f>> :> [k |-> "file", c |-> "0", mode |-> 384])
        Refusals == {"set_permissions", "symlink", "hard_link", "remove", "read_dir"}
    IN [tar : SeqsUpTo(Alphabet, MaxEntries) \ {<<>>}, world : {Machine},
        extract_dir : {<<t, <<"d">>>>}, denied : {{}} \cup {{r} : r \in Refusals}]

ExtractTar ==
    /\ ret = Nothing
    /\ ret' = extract_tar_at(arg.tar, arg.world, arg.extract_dir, arg.denied)
    /\ UNCHANGED <<commits, branches, head, index, rootfs, imageMd, pc, run,
                   result, converted, used, scratchFs, directFs, replayed,
                   produced, arg>>

SpecTar == Given(TarInputs) /\ [][ExtractTar]_vars


AskBranchName ==
    /\ ret = Nothing
    /\ ret' = [name |-> branch_name(IF arg.tag.some
                                    THEN arg.name \o <<":">> \o arg.tag.value
                                    ELSE arg.name,
                                    arg.os_arch, arg.digest)]
    /\ UNCHANGED <<commits, branches, head, index, rootfs, imageMd, pc, run,
                   result, converted, used, scratchFs, directFs, replayed,
                   produced, arg>>

\* container references: a name, alone or with a tag; names in lower and in
\* mixed case, with a namespace, with a registry port, with an "@"; digests
\* longer and shorter than the short digest, with and without the prefix
SpecName ==
    Given(
        LET Hex == <<"0", "1", "2", "3", "4", "5", "6", "7", "8", "9", "a", "b", "c">>
        IN [name : {<<"nginx">>, <<"Nginx">>, <<"library", "/", "nginx">>,
                    <<"localhost", ":", "5000", "/", "app">>, <<"a", "@", "b">>},
            tag : {None, Some(<<"1.21">>)},
            os_arch : {<<"linux", "-", "amd64">>, <<"windows", "-", "arm64">>},
            digest : {<<"sha256:">> \o Hex, <<"sha256:", "a", "b">>, Hex}])
    /\ [][AskBranchName]_vars

\* the layers asked for
NavLayers ==
    load_layers_from_dir([ref |-> "img",
                          history |-> <<HistoryEntry(<<"a">>, TRUE),
                                        HistoryEntry(<<"b">>, FALSE)>>,
                          layers |-> <<Blob(<<FileX>>)>>])

\* the repository whose commit i has the parent parents[i] and an Image.md of
\* the kind kinds[i]: missing, not UTF-8 (after a row that would match),
\* without a table, or with the chain of the first or of the first two of
\* the layers asked for; a branch at every commit without children
NavRepository(parents, kinds) ==
    LET n == Len(parents)
        first == add_layer(<<>>, NavLayers[1])
        chain1 == render_markdown(UnknownInfo, first)
        Md(kind) ==
            CASE kind = "missing" -> NoFile
              [] kind = "not-utf8" -> [chain1 EXCEPT !.table = @ \o <<"<invalid-utf8>">>]
              [] kind = "no-table" -> [chain1 EXCEPT !.table = <<"no", " ", "table", "\n">>]
              [] kind = "chain-1" -> chain1
              [] kind = "chain-2" ->
                    render_markdown(UnknownInfo, add_layer(first, NavLayers[2]))
    IN [commits |-> [i \in 1..n |->
                       [parent |-> parents[i], message |-> <<"m">>,
                        tree |-> [files |-> EmptyTree.files, md |-> Md(kinds[i])],
                        digests |-> IF Md(kinds[i]).exists
                                    THEN parse_markdown(Md(kinds[i])) ELSE <<>>]],
        branches |-> [b \in {[base |-> ToString(i), digest |-> NullImage] :
                               i \in {j \in 1..n : \A c \in 1..n : parents[c] # j}}
                        |-> CHOOSE i \in 1..n : b.base = ToString(i)],
        head |-> DefaultBranch, index |-> EmptyTree, rootfs |-> EmptyFs,
        imageMd |-> NoFile]

\* the branch point of NavLayers in the repository of the description, and
\* the successors of each of its commits and of none
AskBranchPoint ==
    /\ ret = Nothing
    /\ LET repo == NavRepository(arg.parents, arg.kinds)
       IN ret' = [repo |-> repo, found |-> find_branch_point(repo, NavLayers),
                  successors |-> [c \in 0..Len(repo.commits) |->
                                     get_commit_successors(repo, c)]]
    /\ UNCHANGED <<commits, branches, head, index, rootfs, imageMd, pc, run,
                   result, converted, used, scratchFs, directFs, replayed,
                   produced, arg>>

\* up to MaxHist commits, every commit a root or the child of an earlier one
SpecCandidates ==
    Given(
        UNION {[parents : {p \in [1..n -> 0..(n - 1)] : \A i \in 1..n : p[i] < i},
                kinds : [1..n -> {"missing", "not-utf8", "no-table", "chain-1",
                                  "chain-2"}]] : n \in 1..MaxHist})
    /\ [][AskBranchPoint]_vars

(* -------------------------------- claims -------------------------------- *)
\* a convert call has returned and nothing else has run since
Returned == pc = "idle" /\ result.outcome # "none"
\* the call that returned was given an image an earlier call had converted
SecondConvert == Returned /\ result.of.image \in result.of.before

LayerLists == {load_layers_from_dir(image) : image \in HistoryImages}

\* app's layers are base's layers followed by two more
IsExtension(base, app) ==
    LET lb == load_layers_from_dir(base)
        la == load_layers_from_dir(app)
    IN /\ Len(lb) >= 1
       /\ Len(la) = Len(lb) + 2
       /\ SubSeq(la, 1, Len(lb)) = lb

\* the call that returned was convert(app), run on the repository that
\* convert(base) alone had produced
ExtensionConverted(base) ==
    /\ Returned
    /\ result.of.before = {base}
    /\ result.of.commits0 = Len(load_layers_from_dir(base)) + 1
    /\ IsExtension(base, result.of.image)

LayerCommitsSince(n) ==
    {c \in (n + 1)..Len(commits) : commits[c].message # MetadataMessage}

MatchedChain(R, layers, c, k) ==
    LET chain == Ancestry(R, c)
    IN /\ Len(chain) = k
       /\ \E b \in DOMAIN R.branches : IsPrefix(chain, get_branch_commits(R, b))
       /\ \A j \in 1..k :
            layer_matches(read_digests_from_commit(R, chain[j]), j - 1, layers[j])

LayerCommitted ==
    pc = "replay" /\ run.i > run.skip /\ Len(commits) > run.commits0
LastTree == commits[Len(commits)].tree
Applied == SubSeq(run.layers, 1, run.i)
Current == run.layers[run.i]

TarOf(layer) == IF HasTarball(layer) THEN layer.tarball_path.tar ELSE <<>>
EntriesOf(layer) == {TarOf(layer)[n] : n \in 1..Len(TarOf(layer))}
Rel(e) == normalize_tar_path(e.path)
IsMarkerEntry(e) == Rel(e) # <<>> /\ StartsWith(FileName(Rel(e)), ".wh.")
IsOpaqueEntry(e) == Rel(e) # <<>> /\ FileName(Rel(e)) = OpaqueName
\* the layer has an entry that creates a file at p
Writes(layer, p) ==
    \E e \in EntriesOf(layer) : ~IsMarkerEntry(e) /\ e.type = "file" /\ Rel(e) = p
\* what the layer's last entry for p holds
Written(layer, p) ==
    LET tar == TarOf(layer)
        IsFor(n) == ~IsMarkerEntry(tar[n]) /\ Rel(tar[n]) = p
        last == CHOOSE n \in 1..Len(tar) :
                    IsFor(n) /\ \A m \in (n + 1)..Len(tar) : ~IsFor(m)
    IN tar[last].c
\* the layer holds the whiteout .wh.<basename(p)> in dirname(p)
WhitesOut(layer, p) ==
    \E e \in EntriesOf(layer) :
        /\ IsMarkerEntry(e) /\ ~IsOpaqueEntry(e)
        /\ Rel(e) = Append(Parent(p), <<".wh.">> \o FileName(p))
\* the layer holds the opaque marker of directory d
OpaqueFor(layer, d) ==
    \E e \in EntriesOf(layer) : IsOpaqueEntry(e) /\ Parent(Rel(e)) = d
\* the layer hides what the layers below it hold at p
Hides(layer, p) ==
    \/ \E q \in Prefixes(p) : WhitesOut(layer, q)
    \/ \E q \in Prefixes(Parent(p)) \cup {<<>>} : OpaqueFor(layer, q)
    \/ \E q \in Prefixes(Parent(p)) : Writes(layer, q)

\* the files of layers stacked under overlay rules: a path holds what the last
\* layer writing it wrote, unless a layer above that one hides it
OverlayFiles(layers) ==
    LET written == {p \in UNION {{Rel(e) : e \in EntriesOf(layers[k])} :
                                    k \in 1..Len(layers)} :
                       \E k \in 1..Len(layers) : Writes(layers[k], p)}
        Top(p) == CHOOSE k \in 1..Len(layers) :
                     /\ Writes(layers[k], p)
                     /\ \A m \in (k + 1)..Len(layers) : ~Writes(layers[m], p)
        Visible(p) == \A m \in (Top(p) + 1)..Len(layers) : ~Hides(layers[m], p)
    IN [p \in {q \in written : Visible(q)} |-> Written(layers[Top(p)], p)]

MarkerNamed(p) == StartsWith(FileName(p), ".wh.")

C10_PipelinesAgree == scratchFs = directFs

(* ----------------------- claims about the commits ----------------------- *)
\* a convert call into a directory without commits has returned
FreshReturn == Returned /\ result.of.commits0 = 0

\* the message the claim gives the commit of a layer
ExpectedLayerMessage(layer) ==
    <<IF layer.tarball_path # NoTarball THEN "green-circle"
      ELSE IF layer.is_empty THEN "white-circle"
      ELSE "black-circle",
      " - ">> \o layer.command
ExpectedMessages(layers) ==
    [i \in 1..Len(layers) |-> ExpectedLayerMessage(layers[i])]
    \o <<<<"hammer-and-wrench", " - ", "Metadata">>>>

RECURSIVE ChainOf(_)
ChainOf(layers) ==
    IF layers = <<>> THEN <<>>
    ELSE add_layer(ChainOf(SubSeq(layers, 1, Len(layers) - 1)),
                   layers[Len(layers)])

\* the branches no running call is working on
FinishedBranches == {b \in DOMAIN branches : pc = "idle" \/ b # head}

EmptyLayerCommitted == LayerCommitted /\ Current.is_empty
ParentOfLast == commits[Len(commits)].parent

\* C13 as stated: the commit of a declared-empty history entry has the tree of
\* its parent commit: no path is added, removed or changed.
C13_EmptyLayerKeepsTree ==
    (EmptyLayerCommitted /\ ParentOfLast # 0) =>
        LastTree = commits[ParentOfLast].tree

SecondRunReturned ==
    /\ pc = "idle"
    /\ result # NoResult
    /\ produced # NoProduct
    /\ result.of.image = produced.image

C15_TableRoundTrip ==
    ret # Nothing => ret.layer_digests = arg.layer_digests

\* a container configuration none of whose sections is rendered
NothingToRender(c) ==
    /\ c.environment_variables = <<>>
    /\ ~c.command.some
    /\ ~c.entrypoint.some
    /\ c.working_directory = <<>>
    /\ c.exposed_ports = <<>>
    /\ c.labels = {}

\* what the parsed container configuration may be: the one rendered, with "/"
\* for a missing working directory, or None where m has none or has one with
\* no section to render
PermittedConfigs(config) ==
    IF ~config.some THEN {None}
    ELSE LET c == config.value
             n == [c EXCEPT !.working_directory = IF @ = <<>> THEN <<"/">> ELSE @]
         IN {Some(n)} \cup (IF NothingToRender(c) THEN {None} ELSE {})

\* C16: the basic information and the container configuration read back from
\* the rendered markdown are those of m, up to two normalisations: a section
\* absent in m is read as None and a missing working directory as "/".
C16_InfoAndConfigRoundTrip ==
    ret # Nothing =>
        /\ ret.basic_info = arg.basic_info
        /\ ret.container_config \in PermittedConfigs(arg.container_config)

(* ---------------------- claims about the layer chain -------------------- *)
\* a timestamp with either spelling of UTC read as one
ZoneAsOne(created) ==
    [i \in 1..Len(created) |->
        IF created[i] \in {"Z", "+00:00"} THEN "utc" ELSE created[i]]

\* a layer id as a digest: prefixed with sha256: unless it starts with it or
\* has the form <...>
NormalisedId(id) ==
    IF id # <<>> /\ (id[1] = "sha256:" \/ (id[1] = "<" /\ id[Len(id)] = ">"))
    THEN id
    ELSE <<"sha256:">> \o id

\* C17: matches(pos, L) is true exactly when pos < len(chain), the stored
\* entry's is_empty is L's, the stored created timestamp is L's RFC-3339
\* timestamp with Z and +00:00 read as one, and then: for an empty layer the
\* stored command is L's, for a non-empty layer the stored digest is L's id
\* normalised; the command of a non-empty layer is not compared.
C17_MatchesExactlyWhen ==
    ret # Nothing =>
        (ret.matches <=>
            /\ arg.position < Len(arg.tracker)
            /\ LET stored == arg.tracker[arg.position + 1]
                   L == arg.layer
               IN /\ stored.is_empty = L.is_empty
                  /\ ZoneAsOne(stored.created) = ZoneAsOne(ToRfc3339(L.created_at))
                  /\ IF L.is_empty THEN stored.command = L.command
                     ELSE stored.digest = NormalisedId(L.id))

\* a non-empty layer matches an entry stored with Z, with another command and
\* with the digest its bare id stands for
C17_Witness ==
    /\ ret # Nothing
    /\ ret.matches
    /\ ~arg.layer.is_empty
    /\ arg.layer.id = <<"d">>
    /\ LET stored == arg.tracker[arg.position + 1]
       IN /\ stored.command # arg.layer.command
          /\ stored.created = <<Instant, "Z">>

Min(a, b) == IF a <= b THEN a ELSE b

\* a layer list has one record per history entry, in the order of the
\* history; with m the smaller of the number of non-empty entries and the
\* number of blobs, the last m non-empty entries are the blob-backed records,
\* and read in list order they carry the last m blobs of Layers in manifest
\* order, none of them twice
PairedInReverse(history, blobs, layers) ==
    LET nonEmpty == Ascending({i \in 1..Len(history) : ~history[i].empty_layer})
        backed == Ascending({i \in 1..Len(layers) : HasTarball(layers[i])})
        m == Min(Len(nonEmpty), Len(blobs))
    IN /\ Len(layers) = Len(history)
       /\ \A i \in 1..Len(layers) :
             /\ layers[i].command = history[i].created_by
             /\ layers[i].is_empty = history[i].empty_layer
       /\ backed = SubSeq(nonEmpty, Len(nonEmpty) - m + 1, Len(nonEmpty))
       /\ Len(backed) = m
       /\ [k \in 1..Len(backed) |-> layers[backed[k]].tarball_path]
            = SubSeq(blobs, Len(blobs) - m + 1, Len(blobs))
       /\ \A j, k \in 1..Len(backed) :
             layers[backed[j]].tarball_path = layers[backed[k]].tarball_path
                => j = k

\* C18: the layer list built for an image, by ExtractedImage and by
\* ImageProcessor alike, has one record per history entry in the order of the
\* history, and pairs the k-th non-empty entry from the end with the k-th blob
\* from the end of the manifest's Layers.
C18_ReversePairing ==
    ret # Nothing =>
        /\ PairedInReverse(arg.history, arg.layers, ret.layers)
        /\ PairedInReverse(arg.history, arg.layers, ret.listed)

IndexProvidesDigest ==
    /\ FirstManifestDigest(arg.index_json).some
    /\ FirstManifestDigest(arg.index_json).value # <<>>

\* C20: the image id is the digest of manifests[0] in index.json when
\* index.json provides one; otherwise, when the Config path starts with
\* blobs/sha256/, it is sha256: followed by the rest of the path; otherwise,
\* when the Config path ends with .json, it is sha256: followed by the path
\* without .json.
C20_ImageIdPriority ==
    ret # Nothing =>
        IF IndexProvidesDigest
        THEN ret.id = FirstManifestDigest(arg.index_json).value
        ELSE IF Head(arg.config_file) = "blobs/sha256/"
        THEN ret.id = <<"sha256:">> \o Tail(arg.config_file)
        ELSE IF arg.config_file[Len(arg.config_file)] = ".json"
        THEN ret.id = <<"sha256:">>
                      \o SubSeq(arg.config_file, 1, Len(arg.config_file) - 1)
        ELSE TRUE

(* ----------------------- claims about extract_tar ----------------------- *)
\* extract_tar has returned
Extracted == ret # Nothing
\* the path lies in the directory extracted into, or is that directory
UnderRoot(p) == IsPrefix(arg.extract_dir, p)
\* where entry e of the archive goes, below the directory extracted into
RelOf(e) == normalize_tar_path(e.path)
IsMarker(e) == RelOf(e) # <<>> /\ IsWhiteout(FileName(RelOf(e)))
\* entry i writes the relative path t as a regular file
WritesFile(i, t) ==
    arg.tar[i].type = "file" /\ ~IsMarker(arg.tar[i]) /\ RelOf(arg.tar[i]) = t
\* entry k is a whiteout of t or of a directory above t, or the opaque marker
\* of a directory above t, and comes after an entry that wrote t
Removes(k, t) ==
    LET rel == RelOf(arg.tar[k])
    IN /\ IsMarker(arg.tar[k])
       /\ IF IsOpaqueMarker(FileName(rel))
          THEN IsPrefix(Parent(rel), t) /\ Parent(rel) # t
          ELSE IsPrefix(WhiteoutTarget(rel), t)
       /\ \E j \in 1..(k - 1) : WritesFile(j, t)

\* C21: whatever the entry paths and the link entries of the archive,
\* every object outside the directory extracted into is after the extraction
\* what it was before: none is created, overwritten, deleted or given another
\* mode.
C21_NothingOutsideTouched ==
    Extracted =>
        \A p \in DOMAIN ret.fs \cup DOMAIN arg.world :
            ~UnderRoot(p) =>
                /\ p \in DOMAIN ret.fs
                /\ p \in DOMAIN arg.world
                /\ ret.fs[p] = arg.world[p]

\* the archive less its hard link entries is extracted with success
OtherEntriesExtract ==
    extract_tar_at(SelectSeq(arg.tar, LAMBDA e : e.type # "hardlink"),
                   arg.world, arg.extract_dir, arg.denied).ok
\* after the extraction the paths p and q, links followed, name regular files
\* of one content
SameContent(p, q) ==
    LET at == Real(ret.fs, p, TRUE).path
        bt == Real(ret.fs, q, TRUE).path
    IN /\ at \in DOMAIN ret.fs /\ bt \in DOMAIN ret.fs
       /\ ret.fs[at].k = "file" /\ ret.fs[bt].k = "file"
       /\ ret.fs[at].c = ret.fs[bt].c
\* entry h is a hard link whose target an entry of the archive writes as a
\* regular file and no whiteout of the archive removes
LinkToWrittenFile(h) ==
    LET t == normalize_tar_path(arg.tar[h].link)
    IN /\ arg.tar[h].type = "hardlink"
       /\ \E j \in 1..Len(arg.tar) : WritesFile(j, t)
       /\ ~\E k \in 1..Len(arg.tar) : Removes(k, t)

Unrefused == extract_tar_at(arg.tar, arg.world, arg.extract_dir, {})

\* C24: an archive that is extracted with success when nothing is refused is
\* extracted with success when the changes of mode are refused, or the making
\* of symbolic links, or the removals and the listing a marker asks for, or
\* when a hard link's target is missing; and every regular file entry whose
\* file the unrefused extraction leaves in place is in place then too.
C24_RefusalsAreTolerated ==
    (Extracted /\ Unrefused.ok) =>
        /\ ret.ok
        /\ \A i \in 1..Len(arg.tar) :
              LET e == arg.tar[i]
                  p == arg.extract_dir \o RelOf(e)
              IN (/\ e.type = "file" /\ ~IsMarker(e)
                  /\ p \in DOMAIN Unrefused.fs
                  /\ Unrefused.fs[p].k = "file" /\ Unrefused.fs[p].c = e.c)
                 => /\ p \in DOMAIN ret.fs
                    /\ ret.fs[p].k = "file" /\ ret.fs[p].c = e.c

\* C30: every symbolic link the extraction has made points to an absolute
\* path that, "." dropped and ".." popped, lies under the directory extracted
\* into.
C30_LinksPointUnderRoot ==
    Extracted =>
        \A p \in DOMAIN ret.fs :
            ret.fs[p].k = "link" => UnderRoot(normalize_tar_path(ret.fs[p].to))

C26_TrueIffTreeDiffers ==
    (ret # Nothing /\ commits # <<>>) =>
        LET made == commits[Len(commits)]
            before == IF made.parent = 0 THEN EmptyTree
                      ELSE commits[made.parent].tree
        IN ret.has_changes <=> (made.tree # before)

(* ------------------------ claims about branch names --------------------- *)
\* the name of the claim: lower case, "/" and "@" replaced by "-"
Lowercased(s) == [i \in 1..Len(s) |-> IF s[i] = "Nginx" THEN "nginx" ELSE s[i]]
SanitizedName(s) == ReplaceToken(ReplaceToken(Lowercased(s), "/", "-"), "@", "-")
ShortDigest(d) ==
    IF d # <<>> /\ Head(d) = "sha256:"
    THEN [i \in 1..(IF Len(d) - 1 < 12 THEN Len(d) - 1 ELSE 12) |-> d[i + 1]]
    ELSE d

\* C27: the branch name of a container reference is
\* <name>#<tag>#<os>-<arch>#<short-digest>: the name in lower case with "/"
\* and "@" replaced by "-", the tag or "latest", the first 12 characters
\* after "sha256:" of the digest or the whole digest without that prefix.
C27_BranchNameForm ==
    ret # Nothing =>
        ret.name = SanitizedName(arg.name) \o <<"#">>
                   \o (IF arg.tag.some THEN arg.tag.value ELSE <<"latest">>)
                   \o <<"#">> \o arg.os_arch \o <<"#">> \o ShortDigest(arg.digest)

(* --------------- claims about candidates without Image.md --------------- *)
Readable(c) == read_file_from_commit(ret.repo, c).some
\* the candidate's Image.md can be read and its chain holds the layer asked
\* for at the position
ProperMatch(c, position) ==
    /\ Readable(c)
    /\ layer_matches(parse_markdown(ret.repo.commits[c].tree.md), position,
                     NavLayers[position + 1])

\* the candidates of the step after a commit, or of the first step
Candidates(c) ==
    {get_commit_successors(ret.repo, c)[i] :
        i \in 1..Len(get_commit_successors(ret.repo, c))}

\* C29: the navigator returns a result, never an error; the commit it
\* returns was matched through an Image.md that can be read; and it stops at
\* a step only when none of the step's candidates has a readable Image.md
\* with the layer at the position, so a candidate whose Image.md is missing,
\* unreadable or without a table does not keep it from the others.
C29_BadCandidatesAreNoMatch ==
    ret # Nothing =>
        /\ ret.found # {}
        /\ \A r \in ret.found :
              /\ r[1] # 0 => ProperMatch(r[1], r[2] - 1)
              /\ r[2] < Len(NavLayers) =>
                    \A c \in Candidates(r[1]) : ~ProperMatch(c, r[2])

\* the first step had a candidate without Image.md and a candidate whose
\* Image.md is not UTF-8, and the walk went on through a third one
C29_Witness ==
    /\ ret # Nothing
    /\ \E r \in ret.found : r[2] >= 1
    /\ \E c \in Candidates(0) :
          ~ret.repo.commits[c].tree.md.exists
    /\ \E c \in Candidates(0) :
          ret.repo.commits[c].tree.md.exists /\ ~Readable(c)

(* --------------- claims about entries that replace entries -------------- *)
\* the state of the first pass before entry i of the archive
RECURSIVE StateBefore(_)
StateBefore(i) ==
    IF i = 1
    THEN [ok |-> TRUE, fs |-> arg.world, hard |-> <<>>, sym |-> <<>>]
    ELSE ExtractEntryAt(StateBefore(i - 1), arg.tar[i - 1], arg.extract_dir,
                        arg.denied)
\* where the entry's path is in the tree, the links of its parents followed
LandsAt(fs, e) == Real(fs, arg.extract_dir \o RelOf(e), FALSE)
\* entry i is a regular file or a symbolic link, and its path names an object
\* of the tree when its turn comes
ReplacesAt(i) ==
    /\ arg.tar[i].type \in {"file", "symlink"} /\ ~IsMarker(arg.tar[i])
    /\ RelOf(arg.tar[i]) # <<>>
    /\ StateBefore(i).ok
    /\ LandsAt(StateBefore(i).fs, arg.tar[i]).ok
\* after entry i the path is the entry's file or link, and nothing but the
\* path, what was below it, and its parent directory's mode has changed
Replaced(i) ==
    LET e == arg.tar[i]
        before == StateBefore(i).fs
        after == StateBefore(i + 1)
        p == LandsAt(before, e).path
        Apart(q) == ~IsPrefix(p, q) /\ q # Parent(p)
    IN /\ after.ok
       /\ p \in DOMAIN after.fs
       /\ IF e.type = "file"
          THEN after.fs[p].k = "file" /\ after.fs[p].c = e.c
          ELSE after.fs[p].k = "link"
       /\ \A q \in DOMAIN after.fs : IsPrefix(p, q) => q = p
       /\ \A q \in DOMAIN before \cup DOMAIN after.fs :
             Apart(q) => /\ q \in DOMAIN before /\ q \in DOMAIN after.fs
                         /\ before[q] = after.fs[q]

\* C31: when nothing is refused, a regular file entry or a symbolic link
\* entry whose path names an object of the tree replaces that object: what
\* was there is removed with all below it, the path then is the entry's file
\* with the entry's content or a symbolic link, and nothing is written
\* through a link that was at the path.
C31_EntryReplacesWhatWasThere ==
    (Extracted /\ arg.denied = {}) =>
        \A i \in 1..Len(arg.tar) : ReplacesAt(i) => Replaced(i)

(* ------------------------ claims about commands ------------------------- *)
MaxCommand == 3

\* the layer record of an image whose history is one entry with the given
\* created_by, declared empty or not, with one blob in the manifest
AskCommand ==
    /\ ret = Nothing
    /\ ret' = load_layers_from_dir(
                  [ref |-> "img",
                   history |-> <<HistoryEntry(arg.created_by, arg.empty_layer)>>,
                   layers |-> <<Blob(<<>>)>>])[1]
    /\ UNCHANGED <<commits, branches, head, index, rootfs, imageMd, pc, run,
                   result, converted, used, scratchFs, directFs, replayed,
                   produced, arg>>

\* the command universe: up to MaxCommand tokens, each one of the two shell
\* prefixes, a space, or a letter
SpecCommand ==
    Given([created_by : SeqsUpTo({ShellNop, ShellRun, " ", "x"}, MaxCommand),
           empty_layer : BOOLEAN]) /\ [][AskCommand]_vars

\* created_by without its leading shell prefix, if it starts with one
LeadingPrefixStripped(created_by) ==
    IF StartsWith(created_by, ShellNop) \/ StartsWith(created_by, ShellRun)
    THEN TrimStart(Tail(created_by))
    ELSE created_by

\* C32: a layer's command is its created_by with at most one leading shell
\* prefix removed and then left-trimmed; a later occurrence of a prefix is
\* kept, and a created_by that starts with neither prefix is unchanged.
C32_OnlyLeadingPrefixStripped ==
    (arg # Nothing /\ ret # Nothing /\ "created_by" \in DOMAIN arg) =>
        ret.command = LeadingPrefixStripped(arg.created_by)

(* ------------------------- claims about commits ------------------------- *)
\* HEAD is put on a branch: a new one made at a commit of the repository, or
\* one by its name alone
BranchOff ==
    /\ pc = "idle"
    /\ \E name \in {DefaultBranch, [base |-> "topic", digest |-> NullImage]},
          from \in 0..Len(commits) :
          SetRepo(create_branch(Repo, name, from).repo)
    /\ UNCHANGED <<pc, run, result, converted, used, scratchFs, directFs,
                   replayed, produced, arg, ret>>

SpecBranches == Init /\ [][CommitWorkTree \/ BranchOff]_vars

\* the step adds commits to the object store
Commits == Len(commits') > Len(commits)

\* C33: a step that commits adds exactly one commit; its only parent is the
\* commit HEAD's branch pointed to before, or none when that branch is
\* unborn; HEAD stays on its branch, that branch's ref moves to the new
\* commit, every other branch ref and every commit that existed are as
\* before. This holds also when the work tree is as the parent's tree.
C33_OneCommitOnHead ==
    [][Commits =>
          /\ Len(commits') = Len(commits) + 1
          /\ SubSeq(commits', 1, Len(commits)) = commits
          /\ commits'[Len(commits')].parent = HeadCommit(Repo)
          /\ head' = head
          /\ DOMAIN branches' = DOMAIN branches \cup {head}
          /\ branches'[head] = Len(commits')
          /\ \A b \in DOMAIN branches : b # head => branches'[b] = branches[b]]_vars

\* two branches whose refs differ, a root commit, and a commit whose tree is
\* its parent's tree
C33_Witness ==
    /\ \E a, b \in DOMAIN branches : branches[a] # branches[b]
    /\ \E c \in 1..Len(commits) : commits[c].parent = 0
    /\ \E c \in 1..Len(commits) :
          /\ commits[c].parent # 0
          /\ commits[c].tree = commits[commits[c].parent].tree

(* ------------------------ claims about successors ----------------------- *)
\* the commits that come right after c in the list of some branch; for no
\* commit, the first of each list
Follows(c) ==
    LET lists == {get_branch_commits(ret.repo, b) : b \in DOMAIN ret.repo.branches}
    IN {x \in 1..Len(ret.repo.commits) :
           \E cs \in lists :
              IF c # 0
              THEN \E i \in 1..(Len(cs) - 1) : cs[i] = c /\ cs[i + 1] = x
              ELSE cs[1] = x}

\* C34: the successors of a commit are, each once, the commits that come
\* right after it in the oldest-first list of some branch, so a branch whose
\* tip it is adds none; the successors of no commit are, each once, the
\* oldest commits of the branches.
C34_SuccessorsAreNextCommits ==
    ret # Nothing =>
        \A c \in DOMAIN ret.successors :
            LET s == ret.successors[c]
            IN /\ \A i, j \in 1..Len(s) : s[i] = s[j] => i = j
               /\ {s[i] : i \in 1..Len(s)} = Follows(c)

\* two branches share their oldest commit, which has two successors, and
\* the tip of a branch has none
C34_Witness ==
    /\ ret # Nothing
    /\ Len(get_commit_successors_as_pushed(ret.repo, 0)) > Len(ret.successors[0])
    /\ \E c \in 1..Len(ret.repo.commits) : Len(ret.successors[c]) = 2
    /\ \E b \in DOMAIN ret.repo.branches :
          ret.successors[ret.repo.branches[b]] = <<>>

(* --------------------- claims about matching oneself -------------------- *)
\* C35: every layer of an extracted image matches, at its position, the
\* chain recorded from the image's own layers, and also that chain written
\* to Image.md and parsed back.
C35_LayerMatchesItself ==
    ret # Nothing =>
        \A i \in 1..Len(ret.layers) : ret.matches[i] /\ ret.reread[i]

(* ---------------------- claims about a terminated run ------------------- *)
\* the process is terminated between two commits of a run: the repository is
\* as the last commit left it; the image and the messages of the commits the
\* run made are kept
Terminate ==
    /\ pc = "replay"
    /\ produced' = [image |-> run.image,
                    messages |-> [j \in 1..(Len(commits) - run.commits0) |->
                                     commits[run.commits0 + j].message]]
    /\ SetRepo(Repo)
    /\ Finish("terminated", run)
    /\ UNCHANGED <<used, scratchFs, directFs, replayed, arg, ret>>

\* convert of an image of the history universe; once a run was terminated,
\* the one next call is given the same image
ConvertOrRerun ==
    \E image \in HistoryImages :
        /\ produced = NoProduct
           \/ (result.outcome = "terminated" /\ image = produced.image)
        /\ Len(commits) + Len(image.history) + 1 <= MaxNavCommits
        /\ ConvertStart(image, 0, {"direct"})

SpecRerun ==
    Init /\ [][ConvertOrRerun \/ ConvertLayer \/ ConvertMetadata \/ Terminate]_vars

\* the call after a run that was terminated with a layer commit made has
\* returned
Rerun ==
    /\ Returned
    /\ result.outcome # "terminated"
    /\ produced # NoProduct
    /\ produced.messages # <<>>

SpecLinks ==
    Given(LET Hard(name, target) ==
                  [type |-> "hardlink", path |-> <<<<name>>>>, c |-> "",
                   mode |-> 420, link |-> <<<<target>>>>]
              Alphabet ==
                  {[type |-> "file", path |-> <<<<"f">>>>, c |-> "1",
                    mode |-> 420, link |-> <<>>],
                   Hard("h1", "h2"), Hard("h2", "h3"), Hard("h3", "f"),
                   Hard("h4", "g")}
              t == <<"t">>
          IN [tar : SeqsUpTo(Alphabet, MaxEntries + 1) \ {<<>>},
              world : {(<<t>> :> [k |-> "dir", mode |-> 448])
                       @@ (<<t, <<"d">>>> :> [k |-> "dir", mode |-> 493])},
              extract_dir : {<<t, <<"d">>>>}, denied : {{}}])
    /\ [][ExtractTar]_vars

\* the archive makes the relative path t: an entry writes it as a regular
\* file, or a hard link entry has this path and a target the archive makes
\* through at most n further hard links
RECURSIVE MadeWithin(_, _)
MadeWithin(t, n) ==
    \/ \E j \in 1..Len(arg.tar) : WritesFile(j, t)
    \/ /\ n > 0
       /\ \E j \in 1..Len(arg.tar) :
             /\ arg.tar[j].type = "hardlink"
             /\ RelOf(arg.tar[j]) = t
             /\ MadeWithin(normalize_tar_path(arg.tar[j].link), n - 1)

\* C37: in whatever order the entries come, after the retry pass no hard
\* link is skipped whose target the archive makes, as a regular file or
\* through other hard links of the archive.
C37_TwoPassesResolveEveryLink ==
    Extracted =>
        \A s \in 1..Len(ret.skipped) :
            \E r \in {RelOf(arg.tar[j]) : j \in 1..Len(arg.tar)}
                     \cup {normalize_tar_path(arg.tar[j].link) :
                              j \in 1..Len(arg.tar)} :
                /\ ret.skipped[s].target = arg.extract_dir \o r
                /\ ~MadeWithin(r, Len(arg.tar))

(* ------------- claims about directories over files and links ------------ *)
\* the universe of a layer over an earlier one: the tree extracted into holds
\* the directory c and, at a, a regular file, a symbolic link to c, or a
\* symbolic link to a path that does not exist; the archive has up to
\* MaxEntries of the directory a, the file a/f and the directory a/b;
\* nothing is refused
SpecOnto ==
    Given(LET a == <<"a">>
              d == <<<<"t">>, <<"d">>>>
              Alphabet ==
                  {[type |-> "dir", path |-> <<a>>, c |-> "", mode |-> 493,
                    link |-> <<>>],
                   [type |-> "file", path |-> <<a, <<"f">>>>, c |-> "1",
                    mode |-> 420, link |-> <<>>],
                   [type |-> "dir", path |-> <<a, <<"b">>>>, c |-> "",
                    mode |-> 493, link |-> <<>>]}
              Earlier(node) ==
                  (<<<<"t">>>> :> [k |-> "dir", mode |-> 448])
                  @@ (d :> [k |-> "dir", mode |-> 493])
                  @@ (Append(d, <<"c">>) :> [k |-> "dir", mode |-> 493])
                  @@ (Append(d, a) :> node)
          IN [tar : SeqsUpTo(Alphabet, MaxEntries) \ {<<>>},
              world : {Earlier([k |-> "file", c |-> "0", mode |-> 420]),
                       Earlier([k |-> "link", to |-> Append(d, <<"c">>)]),
                       Earlier([k |-> "link", to |-> Append(d, <<"x">>)])},
              extract_dir : {d}, denied : {{}}])
    /\ [][ExtractTar]_vars

\* C38: a layer with a directory entry, or entries below it, at a path where
\* the tree holds a regular file or a symbolic link of an earlier layer is
\* extracted with success, and the path then is a directory that holds the
\* layer's entries.
C38_DirectoryTakesThePlace ==
    Extracted =>
        /\ ret.ok
        /\ \A i \in 1..Len(arg.tar) :
              LET top == arg.extract_dir \o SubSeq(RelOf(arg.tar[i]), 1, 1)
                  p == arg.extract_dir \o RelOf(arg.tar[i])
              IN /\ top \in DOMAIN ret.fs /\ ret.fs[top].k = "dir"
                 /\ p \in DOMAIN ret.fs
                 /\ ret.fs[p].k = arg.tar[i].type

(* ----------------------- claims about the walk's end -------------------- *)
\* a variant of the walk's step that goes to the matching candidate without
\* counting the layer
FindBranchPointInPlace ==
    /\ IF ret = Nothing
       THEN ret' = [current |-> 0, layer_index |-> 0, listed |-> 0,
                    done |-> arg.layers = <<>>]
       ELSE /\ ~ret.done
            /\ LET candidates == get_commit_successors(Repo, ret.current)
                   found == {c \in {candidates[i] : i \in 1..Len(candidates)} :
                                commit_has_layer_at_position(
                                    Repo, c, ret.layer_index,
                                    arg.layers[ret.layer_index + 1])}
               IN IF found = {} THEN ret' = [ret EXCEPT !.done = TRUE]
                  ELSE \E c \in found : ret' = [ret EXCEPT !.current = c]
    /\ UNCHANGED <<commits, branches, head, index, rootfs, imageMd, pc, run,
                   result, converted, used, scratchFs, directFs, replayed,
                   produced, arg>>

\* find_branch_point, step by step: the call with its early return, then one
\* turn of the loop at a time: the candidates are listed, the first that has
\* the layer at the position becomes the current commit and the index grows
\* by one; without one, or with the index at the end, the call returns. Which
\* candidate is first is the order of the OIDs.
FindBranchPointStep ==
    /\ IF ret = Nothing
       THEN ret' = [current |-> 0, layer_index |-> 0, listed |-> 0,
                    done |-> arg.layers = <<>>]
       ELSE /\ ~ret.done
            /\ IF ret.layer_index >= Len(arg.layers)
               THEN ret' = [ret EXCEPT !.done = TRUE]
               ELSE LET candidates == get_commit_successors(Repo, ret.current)
                        found == {c \in {candidates[i] : i \in 1..Len(candidates)} :
                                     commit_has_layer_at_position(
                                         Repo, c, ret.layer_index,
                                         arg.layers[ret.layer_index + 1])}
                    IN IF found = {}
                       THEN ret' = [ret EXCEPT !.listed = @ + 1, !.done = TRUE]
                       ELSE \E c \in found :
                               ret' = [ret EXCEPT !.listed = @ + 1,
                                                  !.current = c,
                                                  !.layer_index = @ + 1]
    /\ UNCHANGED <<commits, branches, head, index, rootfs, imageMd, pc, run,
                   result, converted, used, scratchFs, directFs, replayed,
                   produced, arg>>

\* the walk over every repository of up to MaxHist commits whose Image.md is
\* missing or holds the chain of the two layers asked for, for none, the
\* first, or both of these layers; the loop goes on until the call returns
SpecWalk ==
    /\ arg \in UNION {[parents : {p \in [1..n -> 0..(n - 1)] :
                                    \A i \in 1..n : p[i] < i},
                       kinds : [1..n -> {"missing", "chain-2"}],
                       layers : {SubSeq(NavLayers, 1, k) : k \in 0..2}] :
                         n \in 1..MaxHist}
    /\ commits = NavRepository(arg.parents, arg.kinds).commits
    /\ branches = NavRepository(arg.parents, arg.kinds).branches
    /\ head = DefaultBranch
    /\ index = EmptyTree
    /\ rootfs = EmptyFs
    /\ imageMd = NoFile
    /\ pc = "idle"
    /\ run = NoRun
    /\ result = NoResult
    /\ converted = {}
    /\ used = 0
    /\ scratchFs = EmptyFs
    /\ directFs = EmptyFs
    /\ replayed = <<>>
    /\ produced = NoProduct
    /\ ret = Nothing
    /\ [][FindBranchPointStep]_vars
    /\ WF_vars(FindBranchPointStep)

\* C39: find_branch_point returns; while it runs the layer index grows by
\* one with every match and never goes back; the candidates are listed for
\* at most len(layers) positions; and no step changes a commit, a ref, HEAD,
\* the index or a file of the work tree.
C39_WalkEndsAndChangesNothing ==
    /\ <>(ret # Nothing /\ ret.done)
    /\ [](ret # Nothing =>
             /\ ret.listed <= Len(arg.layers)
             /\ ret.layer_index <= ret.listed)
    /\ [][/\ UNCHANGED <<commits, branches, head, index, rootfs, imageMd>>
          /\ (ret # Nothing /\ ret'.current # ret.current)
                => ret'.layer_index = ret.layer_index + 1
          /\ ret # Nothing => ret'.layer_index >= ret.layer_index]_vars

\* the walk has matched both layers in a repository of more than one branch
\* and has returned after listing candidates twice
C39_Witness ==
    /\ ret # Nothing /\ ret.done
    /\ ret.layer_index = 2 /\ ret.listed = 2
    /\ Cardinality(DOMAIN branches) >= 2

====
